---- MODULE Spec2Model ----
(***************************************************************************)
(* Eligibility matching for government schemes (webapp/matcher.py).        *)
(*                                                                         *)
(* The rule evaluation engine (MatchingEngine) and the batch matcher       *)
(* (evaluate_rules_for_profile) are pure functions of a profile, a rule    *)
(* tree and the scheme tables.  They are modelled as operators; each       *)
(* specification draws the inputs in Init and applies the operation in     *)
(* one action.                                                             *)
(***************************************************************************)
EXTENDS Integers, Sequences, FiniteSets, TLC

VARIABLES
    profile,     \* the profile mapping handed to the engine / the matcher
    rule,        \* one atomic condition {field, op, value}
    rule_ast,    \* one rule tree {"all": [...]} / {"any": [...]}
    schemes,     \* table schemes: rows [id, title]
    scheme_rules,\* table scheme_rules: rows [id, scheme_id, rule_json]
    out,         \* what _evaluate_rule returned
    verdict,     \* what evaluate / evaluate_rule_with_details returned
    results,     \* what evaluate_rules_for_profile returned
    pc,          \* which call has returned
    heap,        \* the objects evaluate calls share or create, by identity
    calls,       \* the invocations of engine.evaluate, each with its locals
    parsed,      \* what parse_text returned, with the text it was given
    crawl        \* the locals of the crawler's main and what it has opened

vars == <<profile, rule, rule_ast, schemes, scheme_rules, out, verdict, results, pc,
          heap, calls, parsed, crawl>>

(***************************************************************************)
(* Bounds of the model.                                                    *)
(***************************************************************************)
MaxStrLen == 2      \* longest string drawn as a rule value / profile value
MaxRules == 3       \* most conditions under one all / any key
MaxSchemes == 2     \* most rows of the schemes table
MaxRows == 3        \* most rows of the scheme_rules table
MaxCalls == 3       \* most invocations of evaluate on the one engine
MaxFragments == 2   \* most phrases in one text given to parse_text
MaxUrls == 2        \* most rows of seedurls.csv

(***************************************************************************)
(* Python values.  A string is a sequence of one-character strings.  Every *)
(* value is a record of the same shape so that any two can be compared:    *)
(*   t = "none" | "bool" | "int" | "float" | "str" | "list"                *)
(*   n : the boolean (0/1), the int, or the float in units of 1/Scale      *)
(*   s : the characters of a str                                           *)
(*   l : the elements of a list (strings)                                  *)
(***************************************************************************)
Scale == 10 ^ (MaxStrLen + 1)

PyNone == [t |-> "none", n |-> 0, s |-> <<>>, l |-> <<>>]
PyBool(b) == [t |-> "bool", n |-> IF b THEN 1 ELSE 0, s |-> <<>>, l |-> <<>>]
PyInt(i) == [t |-> "int", n |-> i, s |-> <<>>, l |-> <<>>]
PyFloat(scaled) == [t |-> "float", n |-> scaled, s |-> <<>>, l |-> <<>>]
PyStr(cs) == [t |-> "str", n |-> 0, s |-> cs, l |-> <<>>]
PyList(xs) == [t |-> "list", n |-> 0, s |-> <<>>, l |-> xs]

\* "no number": what _safe_cast_number returns when it gives up (None)
NoNumber == [ok |-> FALSE, num |-> 0]
Number(scaled) == [ok |-> TRUE, num |-> scaled]

Digits == {"0", "1", "2", "3", "4", "5", "6", "7", "8", "9"}

DigitVal(c) ==
    CASE c = "0" -> 0 [] c = "1" -> 1 [] c = "2" -> 2 [] c = "3" -> 3
      [] c = "4" -> 4 [] c = "5" -> 5 [] c = "6" -> 6 [] c = "7" -> 7
      [] c = "8" -> 8 [] c = "9" -> 9

\* s.replace(c, '')
RECURSIVE Remove(_, _)
Remove(s, c) ==
    IF s = <<>> THEN <<>>
    ELSE IF Head(s) = c THEN Remove(Tail(s), c)
         ELSE <<Head(s)>> \o Remove(Tail(s), c)

\* the whitespace of the texts: blank, tab, line end
Space == {" ", "\t", "\n"}

RECURSIVE LStrip(_)
LStrip(s) ==
    IF s # <<>> /\ Head(s) \in Space THEN LStrip(Tail(s)) ELSE s

RECURSIVE RStrip(_)
RStrip(s) ==
    IF s # <<>> /\ s[Len(s)] \in Space THEN RStrip(SubSeq(s, 1, Len(s) - 1)) ELSE s

\* s.strip()
Strip(s) == LStrip(RStrip(s))

AllDigits(s) == \A i \in 1..Len(s) : s[i] \in Digits

\* the value of a digit string, base ten
RECURSIVE DigitsVal(_)
DigitsVal(s) ==
    IF s = <<>> THEN 0
    ELSE 10 * DigitsVal(SubSeq(s, 1, Len(s) - 1)) + DigitVal(s[Len(s)])

DotAt(s) == CHOOSE i \in 1..Len(s) : s[i] = "."

\* int(s): digits only (sign, underscores, exponents are outside the alphabet)
IntOk(s) == s # <<>> /\ AllDigits(s)

\* float(s) for a string with a '.': digits, exactly one '.', one digit at least
FloatOk(s) ==
    /\ Cardinality({i \in 1..Len(s) : s[i] = "."}) = 1
    /\ Len(s) >= 2
    /\ AllDigits(Remove(s, "."))

FloatVal(s) ==
    LET d == DotAt(s)
        ip == SubSeq(s, 1, d - 1)
        fp == SubSeq(s, d + 1, Len(s))
    IN  DigitsVal(ip) * Scale + DigitsVal(fp) * (10 ^ (MaxStrLen + 1 - Len(fp)))


Upper == <<"A", "B", "C", "D", "E", "F", "G", "H", "I", "J", "K", "L", "M",
           "N", "O", "P", "Q", "R", "S", "T", "U", "V", "W", "X", "Y", "Z">>
Lower == <<"a", "b", "c", "d", "e", "f", "g", "h", "i", "j", "k", "l", "m",
           "n", "o", "p", "q", "r", "s", "t", "u", "v", "w", "x", "y", "z">>

LowerChar(c) ==
    IF \E i \in 1..26 : Upper[i] = c
    THEN Lower[CHOOSE i \in 1..26 : Upper[i] = c]
    ELSE c

\* s.lower()
ToLower(s) == [i \in 1..Len(s) |-> LowerChar(s[i])]

DigitChar(d) == <<"0", "1", "2", "3", "4", "5", "6", "7", "8", "9">>[d + 1]

\* str(i) for an int i >= 0
RECURSIVE NatStr(_)
NatStr(i) ==
    IF i < 10 THEN <<DigitChar(i)>>
    ELSE NatStr(i \div 10) \o <<DigitChar(i % 10)>>

IntStr(i) == IF i < 0 THEN <<"-">> \o NatStr(-i) ELSE NatStr(i)

\* the fraction digits of a float, trailing zeros dropped, one digit at least
RECURSIVE FracStr(_, _)
FracStr(frac, unit) ==
    IF unit = 1 THEN <<DigitChar(frac)>>
    ELSE IF frac % unit = 0 THEN <<DigitChar(frac \div unit)>>
    ELSE <<DigitChar(frac \div unit)>> \o FracStr(frac % unit, unit \div 10)

\* str(x) for a float x >= 0 held in units of 1/Scale (repr: shortest decimal)
FloatStr(scaled) ==
    NatStr(scaled \div Scale) \o <<".">> \o FracStr(scaled % Scale, Scale \div 10)

\* str(xs) for a list of strings: ['a', 'b']
RECURSIVE JoinRepr(_)
JoinRepr(xs) ==
    IF xs = <<>> THEN <<>>
    ELSE <<"'">> \o Head(xs) \o <<"'">>
         \o (IF Len(xs) > 1 THEN <<",", " ">> ELSE <<>>) \o JoinRepr(Tail(xs))

\* str(v)
Str(v) ==
    CASE v.t = "none" -> <<"N", "o", "n", "e">>
      [] v.t = "bool" -> IF v.n = 1 THEN <<"T", "r", "u", "e">>
                                    ELSE <<"F", "a", "l", "s", "e">>
      [] v.t = "int" -> IntStr(v.n)
      [] v.t = "float" -> FloatStr(v.n)
      [] v.t = "str" -> v.s
      [] v.t = "list" -> <<"[">> \o JoinRepr(v.l) \o <<"]">>

\* bool(v): Python truthiness
Truthy(v) ==
    CASE v.t = "none" -> FALSE
      [] v.t = "bool" -> v.n = 1
      [] v.t = "int" -> v.n # 0
      [] v.t = "float" -> v.n # 0
      [] v.t = "str" -> v.s # <<>>
      [] v.t = "list" -> v.l # <<>>

(***************************************************************************)
(* MatchingEngine._safe_cast_number: None stays None, an int / float /     *)
(* bool is returned as it is, anything else goes through str(), loses its  *)
(* commas and surrounding blanks, and is read as a float when it holds a   *)
(* '.', else as an int, else (ValueError) as a float, else None.           *)
(* The number returned is held in units of 1/Scale.                        *)
(***************************************************************************)
_safe_cast_number(v) ==
    IF v.t = "none" THEN NoNumber
    ELSE IF v.t \in {"int", "bool"} THEN Number(v.n * Scale)
    ELSE IF v.t = "float" THEN Number(v.n)
    ELSE LET s == Strip(Remove(Str(v), ","))
         IN  IF \E i \in 1..Len(s) : s[i] = "."
             THEN IF FloatOk(s) THEN Number(FloatVal(s)) ELSE NoNumber
             ELSE IF IntOk(s) THEN Number(DigitsVal(s) * Scale)
             \* float(s) accepts no string of this alphabet that int(s) refuses
             ELSE NoNumber


(***************************************************************************)
(* The profile is a mapping from field names to values; profile.get(field) *)
(* is None both for an absent key and for a null value, so one value,      *)
(* PyNone, stands for both.                                                *)
(***************************************************************************)
ProfileGet(p, field) == IF field \in DOMAIN p THEN p[field] ELSE PyNone

NumericOps == {">", "<", ">=", "<="}

\* the lists taken as they are written, case kept
LowerListCaseKept(v) ==
    IF v.t = "list" THEN v.l ELSE <<Str(v)>>

\* [str(x).lower() for x in v] for a list, [str(v).lower()] for a scalar
LowerList(v) ==
    IF v.t = "list" THEN [i \in 1..Len(v.l) |-> ToLower(v.l[i])]
    ELSE <<ToLower(Str(v))>>

\* any(pv in rule_values for pv in prof_values)
AnyIn(prof_values, rule_values) ==
    \E i \in 1..Len(prof_values) : \E j \in 1..Len(rule_values) :
        prof_values[i] = rule_values[j]

\* the dict _evaluate_rule returns; status is Python's True / False / None
Outcome(r, status, profile_value, explanation, skipped) ==
    [rule |-> <<r.field, r.op, r.value>>, status |-> status,
     profile_value |-> profile_value, explanation |-> explanation,
     skipped |-> skipped]

\* the dict of a branch that computed a boolean status
StatusOutcome(r, profile_value, status) ==
    IF status THEN Outcome(r, "True", profile_value, "PASS", FALSE)
    ELSE Outcome(r, "False", profile_value, "FAIL", FALSE)

\* an uncoercible value taken for missing data
NumericOutcomeSkipsUncoercible(r, profile_value, rule_num, prof_num) ==
    IF ~rule_num.ok \/ ~prof_num.ok
    THEN Outcome(r, "None", profile_value, "SKIPPED: Non-numeric values", TRUE)
    ELSE StatusOutcome(r, profile_value,
                       CASE r.op = ">" -> prof_num.num > rule_num.num
                         [] r.op = "<" -> prof_num.num < rule_num.num
                         [] r.op = ">=" -> prof_num.num >= rule_num.num
                         [] r.op = "<=" -> prof_num.num <= rule_num.num)

\* the numeric branch, given the two numbers _safe_cast_number returned
NumericOutcome(r, profile_value, rule_num, prof_num) ==
    IF ~rule_num.ok \/ ~prof_num.ok
    THEN Outcome(r, "False", profile_value, "FAIL: Non-numeric values", FALSE)
    ELSE StatusOutcome(r, profile_value,
                       CASE r.op = ">" -> prof_num.num > rule_num.num
                         [] r.op = "<" -> prof_num.num < rule_num.num
                         [] r.op = ">=" -> prof_num.num >= rule_num.num
                         [] r.op = "<=" -> prof_num.num <= rule_num.num)

\* the membership branch, given the two lists of lowercase strings
MemberOutcome(r, profile_value, prof_values, rule_values) ==
    StatusOutcome(r, profile_value,
                  IF r.op = "in" THEN AnyIn(prof_values, rule_values)
                  ELSE ~AnyIn(prof_values, rule_values))

\* two values that both read as numbers compared as numbers
EqualStatusNumbers(profile_value, value) ==
    IF value.t = "bool"
    THEN Truthy(profile_value) = (value.n = 1)
    ELSE IF _safe_cast_number(profile_value).ok /\ _safe_cast_number(value).ok
    THEN _safe_cast_number(profile_value).num = _safe_cast_number(value).num
    ELSE ToLower(Str(profile_value)) = ToLower(Str(value))

\* every rule value compared as a string, a boolean like the rest
EqualStatusStringsOnly(profile_value, value) ==
    ToLower(Str(profile_value)) = ToLower(Str(value))

\* the status of the == branch
EqualStatus(profile_value, value) ==
    IF value.t = "bool"
    THEN Truthy(profile_value) = (value.n = 1)
    ELSE ToLower(Str(profile_value)) = ToLower(Str(value))

\* an operator the engine does not know taken for missing data
UnknownOperatorSkipped(r, profile_value) ==
    Outcome(r, "None", profile_value, "SKIPPED: Unknown operator", TRUE)

\* the last return of _evaluate_rule: no branch took the operator
UnknownOperator(r, profile_value) ==
    Outcome(r, "False", profile_value, "ERROR: Unknown operator", FALSE)

(***************************************************************************)
(* MatchingEngine._evaluate_rule past its missing-field test: the branches *)
(* by operator                                                             *)
(***************************************************************************)
EvaluatePresent(r, profile_value) ==
    IF r.op \in NumericOps
    THEN NumericOutcome(r, profile_value, _safe_cast_number(r.value),
                        _safe_cast_number(profile_value))
    ELSE IF r.op \in {"in", "not_in"}
    THEN MemberOutcome(r, profile_value, LowerList(profile_value),
                       LowerList(r.value))
    ELSE IF r.op = "=="
    THEN StatusOutcome(r, profile_value, EqualStatus(profile_value, r.value))
    ELSE IF r.op = "!="
    THEN StatusOutcome(r, profile_value,
                       ToLower(Str(profile_value)) # ToLower(Str(r.value)))
    ELSE UnknownOperator(r, profile_value)

\* a missing field taken for a failure (the superseded engine's reading)
EvaluateRuleMissingFails(r, profile_value) ==
    IF profile_value.t = "none"
    THEN Outcome(r, "False", PyNone, "FAIL: Profile missing field", FALSE)
    ELSE EvaluatePresent(r, profile_value)

(***************************************************************************)
(* MatchingEngine._evaluate_rule(profile, rule), given profile.get(field)  *)
(***************************************************************************)
EvaluateRuleOn(r, profile_value) ==
    IF profile_value.t = "none"
    THEN Outcome(r, "None", PyNone, "SKIPPED: Profile missing field", TRUE)
    ELSE EvaluatePresent(r, profile_value)

_evaluate_rule(p, r) == EvaluateRuleOn(r, ProfileGet(p, r.field))

(***************************************************************************)
(* A rule tree is a dict with the keys "any" and / or "all"; `keys` holds  *)
(* the keys present, and an absent key's list is empty (what .get(k, [])   *)
(* gives).                                                                 *)
(***************************************************************************)
Tree(keys, any, all) == [keys |-> keys, any |-> any, all |-> all]
AllTree(cs) == Tree({"all"}, <<>>, cs)
AnyTree(cs) == Tree({"any"}, cs, <<>>)

\* a score is the quotient passing_rules / total_rules, kept as a fraction
Frac(a, b) == [num |-> a, den |-> b]
ScoreLess(x, y) == x.num * y.den < y.num * x.den
ScoreEq(x, y) == x.num * y.den = y.num * x.den
ScoreLeq(x, y) == x.num * y.den <= y.num * x.den
Zero == Frac(0, 1)
One == Frac(1, 1)

ErrorMarker == [error |-> "Empty rule set"]

\* the loop of evaluate over rules_list: the outcomes, in order, each with
\* its atom and msg
WithAtom(o, r) ==
    [rule |-> o.rule, status |-> o.status, profile_value |-> o.profile_value,
     explanation |-> o.explanation, skipped |-> o.skipped, atom |-> r,
     msg |-> o.explanation]

\* the loop left at the first condition that failed
RECURSIVE OutcomesUntilFailure(_, _)
OutcomesUntilFailure(p, rules_list) ==
    IF rules_list = <<>> THEN <<>>
    ELSE <<WithAtom(_evaluate_rule(p, Head(rules_list)), Head(rules_list))>>
         \o (IF _evaluate_rule(p, Head(rules_list)).status = "False" THEN <<>>
             ELSE OutcomesUntilFailure(p, Tail(rules_list)))

RECURSIVE Outcomes(_, _)
Outcomes(p, rules_list) ==
    IF rules_list = <<>> THEN <<>>
    ELSE <<WithAtom(_evaluate_rule(p, Head(rules_list)), Head(rules_list))>>
         \o Outcomes(p, Tail(rules_list))

\* passing_rules: not skipped and status truthy
PassingRules(outs) ==
    Cardinality({i \in 1..Len(outs) : ~outs[i].skipped /\ outs[i].status = "True"})

\* failed_rules: not skipped and status falsy
FailedRules(outs) ==
    Cardinality({i \in 1..Len(outs) : ~outs[i].skipped /\ outs[i].status # "True"})

Verdict(eligible, score, outcomes) ==
    [eligible |-> eligible, score |-> score, outcomes |-> outcomes]

\* all-mode eligibility as "every condition passed"
TallyAllPassed(mode, total_rules, passing_rules, failed_rules, outcomes) ==
    Verdict(IF mode = "any" THEN passing_rules > 0
            ELSE passing_rules = total_rules,
            Frac(passing_rules, total_rules), outcomes)

\* any-mode eligibility as "nothing failed"
TallyAnyNoFailure(mode, total_rules, passing_rules, failed_rules, outcomes) ==
    Verdict(failed_rules = 0, Frac(passing_rules, total_rules), outcomes)

\* the score over the evaluated conditions only, skipped ones left out
TallyScoreOverEvaluated(mode, total_rules, passing_rules, failed_rules, outcomes) ==
    Verdict(IF mode = "any" THEN passing_rules > 0 ELSE failed_rules = 0,
            IF passing_rules + failed_rules = 0 THEN Zero
            ELSE Frac(passing_rules, passing_rules + failed_rules), outcomes)

\* the score and the final eligibility, from the tallies of the loop
Tally(mode, total_rules, passing_rules, failed_rules, outcomes) ==
    Verdict(IF mode = "any" THEN passing_rules > 0 ELSE failed_rules = 0,
            Frac(passing_rules, total_rules), outcomes)

\* the loop over rules_list and what follows it
EvaluateList(mode, outcomes) ==
    Tally(mode, Len(outcomes), PassingRules(outcomes), FailedRules(outcomes),
          outcomes)

\* evaluate without its early return for an empty rule list: vacuous truth
EvaluateVacuous(p, ast) ==
    IF "any" \in ast.keys
    THEN IF Len(ast.any) = 0 THEN Verdict(FALSE, Zero, <<>>)
         ELSE EvaluateList("any", Outcomes(p, ast.any))
    ELSE IF Len(ast.all) = 0 THEN Verdict(TRUE, Zero, <<>>)
         ELSE EvaluateList("all", Outcomes(p, ast.all))

\* the mode taken from the all key first
evaluateAllFirst(p, ast) ==
    IF "all" \in ast.keys
    THEN IF Len(ast.all) = 0 THEN Verdict(FALSE, Zero, <<ErrorMarker>>)
         ELSE EvaluateList("all", Outcomes(p, ast.all))
    ELSE IF Len(ast.any) = 0 THEN Verdict(FALSE, Zero, <<ErrorMarker>>)
         ELSE EvaluateList("any", Outcomes(p, ast.any))

(***************************************************************************)
(* MatchingEngine.evaluate(profile, rule_ast)                              *)
(***************************************************************************)
evaluate(p, ast) ==
    IF "any" \in ast.keys
    THEN IF Len(ast.any) = 0 THEN Verdict(FALSE, Zero, <<ErrorMarker>>)
         ELSE EvaluateList("any", Outcomes(p, ast.any))
    ELSE IF Len(ast.all) = 0 THEN Verdict(FALSE, Zero, <<ErrorMarker>>)
         ELSE EvaluateList("all", Outcomes(p, ast.all))

(***************************************************************************)
(* A rule value that need not be a tree.  The trees above are mappings     *)
(* with lists of conditions under their keys; any other rule value is a    *)
(* Python value, of which Mapping is the dict: its any and all hold any    *)
(* value, a list being PyList of conditions and other values, and an       *)
(* absent key holds the empty list (what .get(k, []) gives).               *)
(***************************************************************************)
Mapping(keys, any, all) == [t |-> "dict", keys |-> keys, any |-> any, all |-> all]

\* the exception engine.evaluate(profile, rule) ends with, "none" when it
\* returns
Exception(p, ast) ==
    LET NotMapping(v) == "t" \in DOMAIN v /\ v.t # "dict"
        RulesListOf(tree) == IF "any" \in tree.keys THEN tree.any ELSE tree.all
        \* the loop over a list that is not empty: rule.get and profile.get
        Loop(rules_list) ==
            IF NotMapping(p) \/ \E i \in 1..Len(rules_list) : NotMapping(rules_list[i])
            THEN "AttributeError" ELSE "none"
        \* len(rules_list) and the loop
        Rules(c) ==
            CASE c.t \in {"none", "int", "float", "bool"} -> "TypeError"
              [] c.t = "str" -> IF c.s = <<>> THEN "none" ELSE "AttributeError"
              [] c.t = "dict" -> IF c.keys = {} THEN "none" ELSE "AttributeError"
              [] OTHER -> IF c.l = <<>> THEN "none" ELSE Loop(c.l)
    IN  IF "t" \notin DOMAIN ast
        THEN (IF RulesListOf(ast) = <<>> THEN "none" ELSE Loop(RulesListOf(ast)))
        ELSE CASE ast.t \in {"none", "int", "float", "bool"} -> "TypeError"
               [] ast.t \in {"str", "list"} -> "AttributeError"
               [] OTHER -> Rules(IF "any" \in ast.keys THEN ast.any
                                 ELSE IF "all" \in ast.keys THEN ast.all
                                 ELSE PyList(<<>>))

\* the tree a rule value is when evaluate returns for it
AsTree(ast) ==
    LET ListOf(c) == IF c.t = "list" THEN c.l ELSE <<>>
    IN  IF "t" \notin DOMAIN ast THEN ast
        ELSE Tree(ast.keys, ListOf(ast.any), ListOf(ast.all))

\* the handler written for TypeError alone: another exception goes through
evaluate_rule_with_detailsTypeError(ast, p) ==
    IF Exception(p, ast) = "TypeError"
    THEN Verdict(FALSE, Zero, <<[error |-> "TypeError"]>>)
    ELSE IF Exception(p, ast) # "none" THEN [raised |-> Exception(p, ast)]
    ELSE evaluate(p, AsTree(ast))

\* evaluate_rule_with_details(rule, profile): the engine's result, or
\* (False, 0.0, [{'error': str(e)}]) for the exception e it raised
evaluate_rule_with_details(ast, p) ==
    IF Exception(p, ast) # "none"
    THEN Verdict(FALSE, Zero, <<[error |-> Exception(p, ast)]>>)
    ELSE evaluate(p, AsTree(ast))


(***************************************************************************)
(* The tables.  schemes holds rows [id, title], scheme_rules rows          *)
(* [id, scheme_id, rule_json]; both are kept in insertion (id) order.      *)
(***************************************************************************)
SchemeRow(id, title) == [id |-> id, title |-> title]
RuleRow(id, scheme_id, rule_json) ==
    [id |-> id, scheme_id |-> scheme_id, rule_json |-> rule_json]

\* ord(c) for the characters titles are made of
Ord(c) ==
    IF \E i \in 1..26 : Upper[i] = c THEN 64 + (CHOOSE i \in 1..26 : Upper[i] = c)
    ELSE IF \E i \in 1..26 : Lower[i] = c
         THEN 96 + (CHOOSE i \in 1..26 : Lower[i] = c)
    ELSE IF c \in Digits THEN 48 + DigitVal(c)
    ELSE IF c = "&" THEN 38
    ELSE IF c = "-" THEN 45
    ELSE 32

\* a < b for two strings (code point order, a proper prefix first)
RECURSIVE StrLess(_, _)
StrLess(a, b) ==
    IF b = <<>> THEN FALSE
    ELSE IF a = <<>> THEN TRUE
    ELSE IF Ord(Head(a)) # Ord(Head(b)) THEN Ord(Head(a)) < Ord(Head(b))
    ELSE StrLess(Tail(a), Tail(b))

Perms(n) == {f \in [1..n -> 1..n] : \A i, j \in 1..n : i # j => f[i] # f[j]}

\* Scheme.query.order_by(Scheme.title).all(): the rows in ascending title
\* order; the order of rows with one title is the database's choice
OrderByTitle(rows) ==
    {[i \in 1..Len(rows) |-> rows[f[i]]] : f \in
        {g \in Perms(Len(rows)) :
            \A i \in 1..(Len(rows) - 1) : ~StrLess(rows[g[i + 1]].title, rows[g[i]].title)}}

\* SchemeRule.query.filter_by(scheme_id=s.id).all()
RECURSIVE FilterByScheme(_, _)
FilterByScheme(rows, scheme_id) ==
    IF rows = <<>> THEN <<>>
    ELSE (IF Head(rows).scheme_id = scheme_id THEN <<Head(rows)>> ELSE <<>>)
         \o FilterByScheme(Tail(rows), scheme_id)

NoRuleNote == [note |-> "No eligibility rule defined yet"]

Best(score, passed, details) ==
    [best_score |-> score, best_passed |-> passed, best_details |-> details]

\* the last of the best-scoring rules kept (>= for >)
KeepLast(best, r, v) ==
    IF ScoreLeq(best.best_score, v.score)
    THEN Best(v.score, v.eligible, [rule_id |-> r.id, evaluations |-> v.outcomes])
    ELSE best

\* one pass of the loop over a scheme's rules: keep r when its score is
\* greater than the best so far
Keep(best, r, v) ==
    IF ScoreLess(best.best_score, v.score)
    THEN Best(v.score, v.eligible, [rule_id |-> r.id, evaluations |-> v.outcomes])
    ELSE best

\* the body of the loop over a scheme's rules; an exception leaves the best
\* score and puts {'error': str(e)} in place of the details
BestStep(best, r, p) ==
    LET Step(v) ==
            IF "raised" \in DOMAIN v
            THEN Best(best.best_score, best.best_passed, [error |-> v.raised])
            ELSE Keep(best, r, v)
    IN  Step(evaluate_rule_with_details(r.rule_json, p))

RECURSIVE BestOf(_, _, _)
BestOf(best, rules, p) ==
    IF rules = <<>> THEN best
    ELSE BestOf(BestStep(best, Head(rules), p), Tail(rules), p)

\* d.get('skipped') / d.get('status') is False, for an outcome or an error marker
DetailSkipped(d) == "skipped" \in DOMAIN d /\ d.skipped
DetailFailed(d) == "status" \in DOMAIN d /\ d.status = "False"

AnySkipped(best_details) ==
    /\ "evaluations" \in DOMAIN best_details
    /\ \E i \in 1..Len(best_details.evaluations) :
          DetailSkipped(best_details.evaluations[i])

AnyFailed(best_details) ==
    /\ "evaluations" \in DOMAIN best_details
    /\ \E i \in 1..Len(best_details.evaluations) :
          DetailFailed(best_details.evaluations[i])

\* the failure test made after the skip test
LabelSkipFirst(best_score, skipped_any, failed_any) ==
    IF ScoreLeq(One, best_score) THEN "Eligible"
    ELSE IF skipped_any THEN "Maybe Eligible"
    ELSE "Not Eligible"

\* the fallback label read as "not known"
LabelFallbackMaybe(best_score, skipped_any, failed_any) ==
    IF failed_any THEN "Not Eligible"
    ELSE IF ScoreLeq(One, best_score) THEN "Eligible"
    ELSE "Maybe Eligible"

\* a score below 1 without a failure read as a failure
LabelNoMaybe(best_score, skipped_any, failed_any) ==
    IF failed_any THEN "Not Eligible"
    ELSE IF ScoreLeq(One, best_score) THEN "Eligible"
    ELSE "Not Eligible"

LabelOf(best_score, skipped_any, failed_any) ==
    IF failed_any THEN "Not Eligible"
    ELSE IF ScoreLeq(One, best_score) THEN "Eligible"
    ELSE IF skipped_any /\ ~failed_any THEN "Maybe Eligible"
    ELSE "Not Eligible"

\* the label of a scheme from its best score and best details
Label(best_score, best_details) ==
    LabelOf(best_score, AnySkipped(best_details), AnyFailed(best_details))

\* round(float(best_score) * 100.0, 2), in hundredths of a percent.  No
\* score of a tree of fewer than 32 conditions lies halfway between two.
RoundPercent(score) == (2 * 10000 * score.num + score.den) \div (2 * score.den)

\* if best_score < 0: best_score = 0.0
Clamp(best_score) == IF ScoreLess(best_score, Zero) THEN Zero ELSE best_score

\* the entry appended to results, from the scheme and the clamped best
Entry(s, best_score, best_details) ==
    [scheme_id |-> s.id, title |-> s.title,
     result |-> Label(best_score, best_details),
     score |-> RoundPercent(best_score),
     reasons |-> best_details]

EntryOf(s, looped) == Entry(s, Clamp(looped.best_score), looped.best_details)

\* the body of the loop over schemes, given the scheme's rules
SchemeLoop(s, rules, p) ==
    IF rules # <<>>
    THEN EntryOf(s, BestOf(Best(Frac(-1, 1), FALSE, NoRuleNote), rules, p))
    ELSE EntryOf(s, Best(Zero, FALSE, NoRuleNote))

SchemeResult(s, rows, p) == SchemeLoop(s, FilterByScheme(rows, s.id), p)

\* the key without its minus sign: ascending score
KeyLessAscending(a, b) ==
    \/ a.score < b.score
    \/ a.score = b.score /\ StrLess(a.title, b.title)

\* the sort key (-x['score'], x['title']) compared: a before b
KeyLess(a, b) ==
    \/ a.score > b.score
    \/ a.score = b.score /\ StrLess(a.title, b.title)

\* sorted(xs, key=...): stable, an element goes after every element that is
\* not greater than it
RECURSIVE InsertSorted(_, _)
InsertSorted(sorted, x) ==
    IF sorted = <<>> THEN <<x>>
    ELSE IF KeyLess(x, Head(sorted)) THEN <<x>> \o sorted
    ELSE <<Head(sorted)>> \o InsertSorted(Tail(sorted), x)

RECURSIVE Sorted(_)
Sorted(xs) ==
    IF xs = <<>> THEN <<>>
    ELSE InsertSorted(Sorted(SubSeq(xs, 1, Len(xs) - 1)), xs[Len(xs)])

(***************************************************************************)
(* evaluate_rules_for_profile(profile), given the rows the schemes query   *)
(* returned                                                                *)
(***************************************************************************)
evaluate_rules_for_profile(ordered, rows, p) ==
    Sorted([i \in 1..Len(ordered) |-> SchemeResult(ordered[i], rows, p)])


(***************************************************************************)
(* Inputs.                                                                 *)
(***************************************************************************)
SeqsUpTo(S, n) == UNION {[1..k -> S] : k \in 0..n}

female == <<"f", "e", "m", "a", "l", "e">>
Female == <<"F", "e", "m", "a", "l", "e">>
male == <<"m", "a", "l", "e">>

\* the characters rule values and profile values are drawn from
ValueAlphabet == {"1", ".", ",", " ", "x"}

\* every value of a small universe: the strings up to MaxStrLen, two ints,
\* two floats (1.5 and 2.0), the booleans and two lists
Values ==
    {PyStr(cs) : cs \in SeqsUpTo(ValueAlphabet, MaxStrLen)}
    \cup {PyInt(1), PyInt(2), PyFloat((3 * Scale) \div 2), PyFloat(2 * Scale),
          PyBool(TRUE), PyBool(FALSE),
          PyList(<<<<"x">>>>), PyList(<<<<"1">>, <<"X">>>>)}

\* the eight operators and three the engine does not know
Ops == {">", "<", ">=", "<=", "==", "!=", "in", "not_in", "~", "=", "IN"}

Cond(field, op, value) == [field |-> field, op |-> op, value |-> value]

NoRule == Cond("", "", PyNone)
NoTree == Tree({}, <<>>, <<>>)
NoOut == [none |-> TRUE]

\* the conditions rule trees are made of: one per branch of _evaluate_rule
TreeConds ==
    {Cond("age", ">=", PyInt(18)),
     Cond("age", "<=", PyStr(<<"3", "5">>)),
     Cond("age", ">", PyStr(<<"x">>)),
     Cond("income", "<", PyInt(5)),
     Cond("gender", "==", PyStr(female)),
     Cond("gender", "!=", PyStr(male)),
     Cond("gender", "in", PyList(<<female>>)),
     Cond("gender", "not_in", PyList(<<female, male>>)),
     Cond("income", "~", PyInt(1))}

TreeProfiles ==
    {[age |-> a, income |-> i, gender |-> g] :
        a \in {PyNone, PyInt(17), PyInt(30)},
        i \in {PyNone, PyFloat(3 * Scale)},
        g \in {PyNone, PyStr(Female)}}

\* the trees: an all list, an any list, neither key, or both keys
Trees ==
    LET lists == SeqsUpTo(TreeConds, MaxRules)
    IN  {AllTree(cs) : cs \in lists} \cup {AnyTree(cs) : cs \in lists}
        \cup {NoTree}
        \cup {Tree({"any", "all"}, cs, <<Cond("age", ">=", PyInt(18))>>) : cs \in lists}

(***************************************************************************)
(* The condition evaluator applied to one condition and one profile.       *)
(***************************************************************************)
InitRule ==
    /\ rule \in {Cond("age", op, v) : op \in Ops, v \in Values}
    /\ profile \in {[age |-> v] : v \in Values \cup {PyNone}}
    /\ rule_ast = NoTree
    /\ schemes = <<>>
    /\ scheme_rules = <<>>
    /\ out = NoOut
    /\ verdict = NoOut
    /\ results = <<>>
    /\ pc = "start"
    /\ heap = <<>>
    /\ calls = <<>>
    /\ parsed = NoOut
    /\ crawl = NoOut

EvaluateRule ==
    /\ pc = "start"
    /\ out' = _evaluate_rule(profile, rule)
    /\ pc' = "done"
    /\ UNCHANGED <<profile, rule, rule_ast, schemes, scheme_rules, verdict, results, heap, calls, parsed, crawl>>

NextRule == EvaluateRule

SpecRule == InitRule /\ [][NextRule]_vars

(***************************************************************************)
(* The rule tree evaluator applied to one tree and one profile.            *)
(***************************************************************************)
Init ==
    /\ rule_ast \in Trees
    /\ profile \in TreeProfiles
    /\ rule = NoRule
    /\ schemes = <<>>
    /\ scheme_rules = <<>>
    /\ out = NoOut
    /\ verdict = NoOut
    /\ results = <<>>
    /\ pc = "start"
    /\ heap = <<>>
    /\ calls = <<>>
    /\ parsed = NoOut
    /\ crawl = NoOut

Evaluate ==
    /\ pc = "start"
    /\ verdict' = evaluate(profile, rule_ast)
    /\ pc' = "done"
    /\ UNCHANGED <<profile, rule, rule_ast, schemes, scheme_rules, out, results, heap, calls, parsed, crawl>>

Next == Evaluate

Spec == Init /\ [][Next]_vars


(***************************************************************************)
(* The batch matcher applied to the tables and one profile.                *)
(***************************************************************************)
Titles == {<<"A", "B">>, <<"B">>}

\* the rule trees of the schemes of a table of several schemes
BatchTrees ==
    {AllTree(<<Cond("age", ">=", PyInt(18)), Cond("income", "<", PyInt(5))>>),
     AllTree(<<Cond("income", "<", PyInt(5)), Cond("gender", "==", PyStr(female))>>)}

\* the rule trees of the one scheme of a table of one scheme
LabelConds ==
    {Cond("age", ">=", PyInt(18)),
     Cond("age", "<=", PyStr(<<"3", "5">>)),
     Cond("income", "<", PyInt(5))}

LabelTrees ==
    LET lists == SeqsUpTo(LabelConds, MaxRules)
    IN  {AllTree(cs) : cs \in lists} \cup {AnyTree(cs) : cs \in lists}

BatchProfiles ==
    {[age |-> a, income |-> i] :
        a \in {PyInt(17), PyInt(30)},
        i \in {PyNone, PyFloat(3 * Scale)}}

\* the schemes rows with the given titles, ids from k
RECURSIVE SchemeRows(_, _)
SchemeRows(titles, k) ==
    IF titles = <<>> THEN <<>>
    ELSE <<SchemeRow(k, Head(titles))>> \o SchemeRows(Tail(titles), k + 1)

\* the scheme_rules rows for the pairs <<scheme_id, rule_json>>, ids from k
RECURSIVE RuleRows(_, _)
RuleRows(pairs, k) ==
    IF pairs = <<>> THEN <<>>
    ELSE <<RuleRow(k, Head(pairs)[1], Head(pairs)[2])>> \o RuleRows(Tail(pairs), k + 1)

\* the profiles matched against tables of several schemes
RankProfiles == {p \in BatchProfiles : p.income # PyNone}

\* tables of up to MaxSchemes schemes and up to MaxRows rules, each rule
\* one of BatchTrees and belonging to any of the schemes
InitSeveralSchemes ==
    \E n \in 0..MaxSchemes :
        \E titles \in [1..n -> Titles] :
            \E pairs \in SeqsUpTo((1..n) \X BatchTrees, MaxRows) :
                /\ schemes = SchemeRows(titles, 1)
                /\ scheme_rules = RuleRows(pairs, 1)
                /\ profile \in RankProfiles

\* tables of one scheme with one of LabelTrees, or none
InitOneScheme ==
    \E pairs \in SeqsUpTo({1} \X LabelTrees, 1) :
        /\ schemes = SchemeRows(<<<<"A">>>>, 1)
        /\ scheme_rules = RuleRows(pairs, 1)
        /\ profile \in BatchProfiles

InitBatch ==
    /\ InitSeveralSchemes \/ InitOneScheme
    /\ rule = NoRule
    /\ rule_ast = NoTree
    /\ out = NoOut
    /\ verdict = NoOut
    /\ results = <<>>
    /\ pc = "start"
    /\ heap = <<>>
    /\ calls = <<>>
    /\ parsed = NoOut
    /\ crawl = NoOut

\* the /match handler's call evaluate_rules_for_profile(profile)
Match ==
    /\ pc = "start"
    /\ \E ordered \in OrderByTitle(schemes) :
          results' = evaluate_rules_for_profile(ordered, scheme_rules, profile)
    /\ pc' = "done"
    /\ UNCHANGED <<profile, rule, rule_ast, schemes, scheme_rules, out, verdict, heap, calls, parsed, crawl>>

NextBatch == Match

SpecBatch == InitBatch /\ [][NextBatch]_vars

(***************************************************************************)
(* The scheme page (app.py, scheme_detail), opened after a match: the      *)
(* profile is the one the match left in the session (specification         *)
(* SpecDetail).                                                            *)
(***************************************************************************)
\* the label scheme_detail gives one rule
DetailLabel(score, skipped_any, failed_any) ==
    IF failed_any THEN "Not Eligible"
    ELSE IF ScoreLeq(score, Zero) THEN "Not Eligible"
    ELSE IF ScoreLeq(One, score)
         THEN (IF ~skipped_any THEN "Eligible" ELSE "Maybe Eligible")
    ELSE "Maybe Eligible"

NoEvaluation == [none |-> TRUE]

\* the evaluation scheme_detail shows for the scheme, given the rows of
\* scheme_rules: that of the first rule among those of the highest score
scheme_detail(scheme_id, rows, p) ==
    LET Detail(r, v) ==
            [rule_id |-> r.id,
             score |-> RoundPercent(v.score),
             label |->
                 DetailLabel(v.score,
                             \E i \in 1..Len(v.outcomes) : DetailSkipped(v.outcomes[i]),
                             \E i \in 1..Len(v.outcomes) : DetailFailed(v.outcomes[i]))]
        RECURSIVE Details(_)
        Details(rules) ==
            IF rules = <<>> THEN <<>>
            ELSE <<Detail(Head(rules),
                          evaluate_rule_with_details(Head(rules).rule_json, p))>>
                 \o Details(Tail(rules))
        \* max(evaluation_details, key=lambda x: x['score'])
        Max(ds) ==
            ds[CHOOSE i \in 1..Len(ds) :
                   \A j \in 1..Len(ds) :
                       /\ ds[j].score <= ds[i].score
                       /\ j < i => ds[j].score < ds[i].score]
        Evaluation(rules) ==
            IF DOMAIN p # {} /\ rules # <<>> THEN Max(Details(rules))
            ELSE NoEvaluation
    IN  Evaluation(FilterByScheme(rows, scheme_id))

\* GET /scheme/<scheme_id>
SchemeDetail ==
    /\ pc = "done"
    /\ \E scheme_id \in 1..(Len(schemes) + 1) :
          out' = IF scheme_id <= Len(schemes)
                 THEN [scheme_id |-> scheme_id,
                       evaluation |-> scheme_detail(scheme_id, scheme_rules, profile)]
                 ELSE [scheme_id |-> scheme_id, status |-> 404]
    /\ pc' = "detail"
    /\ UNCHANGED <<profile, rule, rule_ast, schemes, scheme_rules, verdict, results,
                   heap, calls, parsed, crawl>>

NextDetail == Match \/ SchemeDetail

SpecDetail == InitBatch /\ [][NextDetail]_vars

(***************************************************************************)
(* Rule values of every shape, as free-form JSON in the column rule_json   *)
(* can be: given to evaluate_rule_with_details, and in the table of a      *)
(* match next to a scheme with a proper tree (specification SpecMalformed).*)
(***************************************************************************)
RuleValues ==
    LET adult == Cond("age", ">=", PyInt(18))
        none == PyList(<<>>)
    IN  {PyNone, PyInt(5), PyBool(TRUE), PyStr(<<"a", "n", "y">>), PyStr(<<>>),
         PyList(<<>>), PyList(<<adult>>),
         Mapping({}, none, none),
         Mapping({"all"}, none, PyNone),
         Mapping({"all"}, none, PyInt(3)),
         Mapping({"all"}, none, PyStr(<<"a", "b">>)),
         Mapping({"all"}, none, PyStr(<<>>)),
         Mapping({"all"}, none, Mapping({}, none, none)),
         Mapping({"all"}, none, Mapping({"all"}, none, PyList(<<adult>>))),
         Mapping({"any", "all"}, PyNone, PyList(<<adult>>)),
         Mapping({"all"}, none, PyList(<<PyInt(5)>>)),
         Mapping({"all"}, none, PyList(<<adult, PyNone>>)),
         Mapping({"any"}, PyList(<<PyStr(<<"x">>), adult>>), none),
         Mapping({"all"}, none, none),
         Mapping({"all"}, none, PyList(<<adult>>)),
         Mapping({"any"}, PyList(<<adult, Cond("age", "<", PyInt(18))>>), none),
         AllTree(<<adult, Cond("income", "<", PyInt(5))>>)}

\* the profiles, one of them not a mapping
AnyProfiles ==
    {[age |-> PyInt(30)], [age |-> PyInt(17)], [income |-> PyInt(3)], PyNone}

InitMalformed ==
    /\ rule_ast \in RuleValues
    /\ profile \in AnyProfiles
    /\ schemes = SchemeRows(<<<<"A">>, <<"B">>>>, 1)
    /\ \E good \in BatchTrees :
          scheme_rules = RuleRows(<<<<1, rule_ast>>, <<2, good>>>>, 1)
    /\ rule = NoRule
    /\ out = NoOut
    /\ verdict = NoOut
    /\ results = <<>>
    /\ pc = "start"
    /\ heap = <<>>
    /\ calls = <<>>
    /\ parsed = NoOut
    /\ crawl = NoOut

\* evaluate_rule_with_details(rule, profile)
EvaluateWithDetails ==
    /\ pc = "start"
    /\ verdict' = evaluate_rule_with_details(rule_ast, profile)
    /\ pc' = "evaluated"
    /\ UNCHANGED <<profile, rule, rule_ast, schemes, scheme_rules, out, results,
                   heap, calls, parsed, crawl>>

NextMalformed == EvaluateWithDetails \/ Match

SpecMalformed == InitMalformed /\ [][NextMalformed]_vars

(***************************************************************************)
(* The superseded engine (aditya/matching_engine.py) next to the engine    *)
(* of matcher.py, on one tree and one profile (specification               *)
(* SpecSuperseded).  Its _evaluate_rule has the branches of the other for  *)
(* a field the profile has, and status False for a field it lacks; its     *)
(* evaluate reads the all list alone and returns the flag, the             *)
(* explanation (here its summary and its count of failed rules) and the    *)
(* score.                                                                  *)
(***************************************************************************)
\* eligibility as "some rule passed"
aditya_evaluateSomePassed(p, ast) ==
    LET Status(r) ==
            IF ProfileGet(p, r.field) = PyNone THEN "False"
            ELSE EvaluatePresent(r, ProfileGet(p, r.field)).status
        Returned(total_rules, passing_rules) ==
            [eligible |-> passing_rules > 0,
             explanation |-> [summary |-> IF passing_rules > 0
                                          THEN "ELIGIBLE" ELSE "INELIGIBLE",
                              failed |-> total_rules - passing_rules],
             score |-> IF total_rules = 0 THEN Zero
                       ELSE Frac(passing_rules, total_rules)]
    IN  Returned(Len(ast.all),
                 Cardinality({i \in 1..Len(ast.all) : Status(ast.all[i]) = "True"}))

\* MatchingEngine.evaluate(profile, rule_ast) of aditya/matching_engine.py
aditya_evaluate(p, ast) ==
    LET \* _evaluate_rule(profile, r)['status']
        Status(r) ==
            IF ProfileGet(p, r.field) = PyNone THEN "False"
            ELSE EvaluatePresent(r, ProfileGet(p, r.field)).status
        Returned(total_rules, passing_rules) ==
            [eligible |-> total_rules # 0 /\ passing_rules = total_rules,
             explanation |-> [summary |-> IF total_rules # 0 /\ passing_rules = total_rules
                                          THEN "ELIGIBLE" ELSE "INELIGIBLE",
                              failed |-> total_rules - passing_rules],
             score |-> IF total_rules = 0 THEN Zero
                       ELSE Frac(passing_rules, total_rules)]
    IN  Returned(Len(ast.all),
                 Cardinality({i \in 1..Len(ast.all) : Status(ast.all[i]) = "True"}))

\* the trees without an any key, and the profiles of Spec
InitSuperseded ==
    /\ Init
    /\ "any" \notin rule_ast.keys

EvaluateSuperseded ==
    /\ pc = "done"
    /\ out' = aditya_evaluate(profile, rule_ast)
    /\ pc' = "both"
    /\ UNCHANGED <<profile, rule, rule_ast, schemes, scheme_rules, verdict, results,
                   heap, calls, parsed, crawl>>

NextSuperseded == Evaluate \/ EvaluateSuperseded

SpecSuperseded == InitSuperseded /\ [][NextSuperseded]_vars

(***************************************************************************)
(* The crawler (fetcher.py): main reads the seed list, launches a browser  *)
(* and a context, and fetches every seed in turn, each in a fresh page,    *)
(* again after a failure until MAX_RETRIES retries are spent.  pc is the   *)
(* statement main is at; crawl holds its locals, the state of the page,    *)
(* the context and the browser, and per seed row the attempts made and     *)
(* whether its file was written (specifications SpecCrawl, SpecCrawlFair). *)
(***************************************************************************)
MAX_RETRIES == 2

\* what read_seed_urls may return: the rows of the file in order, a URL on
\* more than one row included
SeedLists == SeqsUpTo({"a", "b"}, MaxUrls)

InitCrawl ==
    /\ crawl \in {[urls |-> urls, idx |-> 0, attempt |-> 0, success |-> FALSE,
                   page |-> "none", context |-> "none", browser |-> "none",
                   attempts |-> [i \in 1..Len(urls) |-> 0],
                   saved |-> [i \in 1..Len(urls) |-> FALSE]] : urls \in SeedLists}
    /\ pc = "main"
    /\ profile = NoOut
    /\ rule = NoRule
    /\ rule_ast = NoTree
    /\ schemes = <<>>
    /\ scheme_rules = <<>>
    /\ out = NoOut
    /\ verdict = NoOut
    /\ results = <<>>
    /\ heap = <<>>
    /\ calls = <<>>
    /\ parsed = NoOut

Others == <<profile, rule, rule_ast, schemes, scheme_rules, out, verdict, results,
            heap, calls, parsed>>

\* main, 104-107: no seed, nothing launched
NoUrls ==
    /\ pc = "main"
    /\ crawl.urls = <<>>
    /\ pc' = "returned"
    /\ UNCHANGED <<crawl, Others>>

\* main, 111-118: the browser and the context
Launch ==
    /\ pc = "main"
    /\ crawl.urls # <<>>
    /\ crawl' = [crawl EXCEPT !.browser = "open", !.context = "open"]
    /\ pc' = "for"
    /\ UNCHANGED Others

\* main, 119-125: the next seed, or the end of the for loop
ForUrl ==
    /\ pc = "for"
    /\ IF crawl.idx < Len(crawl.urls)
       THEN /\ crawl' = [crawl EXCEPT !.idx = @ + 1, !.success = FALSE, !.attempt = 0]
            /\ pc' = "while"
       ELSE /\ pc' = "finally"
            /\ UNCHANGED crawl
    /\ UNCHANGED Others

\* the loop that tries again whether or not the fetch succeeded
WhileAttemptIgnoresSuccess ==
    /\ pc = "while"
    /\ IF crawl.attempt <= MAX_RETRIES
       THEN /\ crawl' = [crawl EXCEPT !.attempt = @ + 1, !.page = "open",
                                      !.attempts[crawl.idx] = @ + 1]
            /\ pc' = "fetch"
       ELSE /\ pc' = "for"
            /\ UNCHANGED crawl
    /\ UNCHANGED Others

\* main, 126-128 and 145-146: the test of the while loop; a new attempt in
\* a new page, or on to the next seed
WhileAttempt ==
    /\ pc = "while"
    /\ IF crawl.attempt <= MAX_RETRIES /\ ~crawl.success
       THEN /\ crawl' = [crawl EXCEPT !.attempt = @ + 1, !.page = "open",
                                      !.attempts[crawl.idx] = @ + 1]
            /\ pc' = "fetch"
       ELSE /\ pc' = "for"
            /\ UNCHANGED crawl
    /\ UNCHANGED Others

\* main, 130-137, with fetch_single_page: True once the file is written,
\* False on a timeout or any other exception; the backoff sleep after a
\* failure
FetchSinglePage ==
    /\ pc = "fetch"
    /\ \E fetched \in BOOLEAN :
          crawl' = [crawl EXCEPT !.success = fetched,
                                 !.saved[crawl.idx] = @ \/ fetched]
    /\ pc' = "close"
    /\ UNCHANGED Others

\* main, 139-143: the finally of the attempt
ClosePage ==
    /\ pc = "close"
    /\ crawl' = [crawl EXCEPT !.page = "closed"]
    /\ pc' = "while"
    /\ UNCHANGED Others

\* main, 148-152: the finally of the loop
CloseAll ==
    /\ pc = "finally"
    /\ crawl' = [crawl EXCEPT !.context = "closed", !.browser = "closed"]
    /\ pc' = "complete"
    /\ UNCHANGED Others

NextCrawl ==
    \/ NoUrls
    \/ Launch
    \/ ForUrl
    \/ WhileAttempt
    \/ FetchSinglePage
    \/ ClosePage
    \/ CloseAll

SpecCrawl == InitCrawl /\ [][NextCrawl]_vars

\* main runs on: no statement of it waits for anything but a timed call
SpecCrawlFair == SpecCrawl /\ WF_vars(NextCrawl)


(***************************************************************************)
(* Invocations of engine.evaluate on the one module-level engine, run      *)
(* statement by statement and interleaved.  heap holds the objects by      *)
(* identity (an object's id is its index): the engine, the profile         *)
(* mappings and rule trees handed to the calls, and the lists the calls    *)
(* create.  calls holds one frame per invocation: its arguments, its       *)
(* locals, where it stands, and what it returned (ret, with the identity   *)
(* of the outcome list; result, with what the list held at the return).    *)
(* A frame also records what its arguments held when the call began        *)
(* (profile0, rule_ast0), the objects the call has created, read and       *)
(* written, and whether no other call was in its loop while it ran (alone).*)
(***************************************************************************)
Cell(kind, v) == [kind |-> kind, v |-> v]

\* engine = MatchingEngine(): the first object; the class sets no attribute
engine == 1

CallProfiles ==
    <<[age |-> PyInt(30)], [age |-> PyInt(17), income |-> PyFloat(3 * Scale)]>>

CallTrees ==
    <<AllTree(<<Cond("age", ">=", PyInt(18)), Cond("income", "<", PyInt(5))>>),
      AnyTree(<<Cond("age", ">=", PyInt(18)), Cond("income", "<", PyInt(5))>>),
      AllTree(<<>>)>>

ProfileRefs == {2, 3}
TreeRefs == {4, 5, 6}

InitCalls ==
    /\ heap = <<Cell("MatchingEngine", <<>>),
                Cell("dict", CallProfiles[1]), Cell("dict", CallProfiles[2]),
                Cell("dict", CallTrees[1]), Cell("dict", CallTrees[2]),
                Cell("dict", CallTrees[3])>>
    /\ calls = <<>>
    /\ parsed = NoOut
    /\ crawl = NoOut
    /\ profile = <<>>
    /\ rule = NoRule
    /\ rule_ast = NoTree
    /\ schemes = <<>>
    /\ scheme_rules = <<>>
    /\ out = NoOut
    /\ verdict = NoOut
    /\ results = <<>>
    /\ pc = "start"

\* rules_list: the list under "any" when the key is there, else under "all"
RulesList(ast) == IF "any" \in ast.keys THEN ast.any ELSE ast.all

\* the objects a step created or changed
Changed(h, h2) == {id \in 1..Len(h2) : id > Len(h) \/ h2[id] # h[id]}

\* one list made when the function is defined and used by every call
OutcomesRefDefaultArgument(h, cs) ==
    IF cs = <<>> THEN Len(h) + 1 ELSE cs[1].outcomes

\* outcomes = []: the identity of the list the statement creates
OutcomesRef(h, cs) == Len(h) + 1

\* the heap after outcomes = []
WithOutcomes(h, ref) ==
    IF ref > Len(h) THEN Append(h, Cell("list", <<>>)) ELSE h

\* the frame of evaluate(profile, rule_ast) at its first statement
NewFrame(p, t, ref, mode, total_rules) ==
    [self |-> engine, profile |-> p, rule_ast |-> t,
     mode |-> mode, total_rules |-> total_rules,
     passing_rules |-> 0, failed_rules |-> 0, outcomes |-> ref, i |-> 0,
     pc |-> "loop", ret |-> NoOut, result |-> NoOut,
     profile0 |-> heap[p].v, rule_ast0 |-> heap[t].v,
     created |-> {}, reads |-> {engine, p, t}, writes |-> {},
     alone |-> \A c \in 1..Len(calls) : calls[c].pc = "done"]

\* the statements of evaluate up to its loop, the early return included
EnterWith(f) ==
    IF f.total_rules = 0
    THEN /\ heap' = Append(WithOutcomes(heap, f.outcomes),
                           Cell("list", <<ErrorMarker>>))
         /\ calls' = Append(calls,
                [f EXCEPT !.pc = "done",
                          !.ret = Verdict(FALSE, Zero, Len(heap')),
                          !.result = Verdict(FALSE, Zero, <<ErrorMarker>>),
                          !.created = Changed(heap, heap'),
                          !.writes = Changed(heap, heap')])
    ELSE /\ heap' = WithOutcomes(heap, f.outcomes)
         /\ calls' = Append(calls, [f EXCEPT !.created = Changed(heap, heap'),
                                             !.writes = Changed(heap, heap')])

\* a request handler calls engine.evaluate on a profile and a rule tree
Enter ==
    /\ Len(calls) < MaxCalls
    /\ \E p \in ProfileRefs, t \in TreeRefs :
          EnterWith(NewFrame(p, t, OutcomesRef(heap, calls),
                             IF "any" \in heap[t].v.keys THEN "any" ELSE "all",
                             Len(RulesList(heap[t].v))))
    /\ UNCHANGED <<profile, rule, rule_ast, schemes, scheme_rules, out, verdict,
                   results, pc, parsed, crawl>>

\* outcomes kept on the instance (self.outcomes): the list of the call that
\* entered last
OutcomesOfInstance(cs, c) == cs[Len(cs)].outcomes

\* the local variable outcomes of call c
OutcomesOf(cs, c) == cs[c].outcomes

\* the profile's value written into the condition as well
\* (r['value'] = out['profile_value'])
AppendOutcomeWritingAtom(h, ref, f, r, o) ==
    [h EXCEPT ![ref].v = Append(@, WithAtom(o, r)),
              ![f.rule_ast].v =
                  IF f.mode = "any"
                  THEN [@ EXCEPT !.any[f.i + 1].value = o.profile_value]
                  ELSE [@ EXCEPT !.all[f.i + 1].value = o.profile_value]]

\* out['atom'] = r; out['msg'] = out['explanation']; outcomes.append(out)
AppendOutcome(h, ref, f, r, o) ==
    [h EXCEPT ![ref].v = Append(@, WithAtom(o, r))]

\* the frame after one pass of the loop that produced the outcome o
Counted(f, o, ref, written, alone) ==
    [f EXCEPT !.i = @ + 1,
              !.passing_rules = IF ~o.skipped /\ o.status = "True" THEN @ + 1 ELSE @,
              !.failed_rules = IF ~o.skipped /\ o.status # "True" THEN @ + 1 ELSE @,
              !.reads = @ \cup {ref},
              !.writes = @ \cup written,
              !.alone = @ /\ alone]

LoopBody(c, f, r, o) ==
    /\ heap' = AppendOutcome(heap, OutcomesOf(calls, c), f, r, o)
    /\ calls' = [calls EXCEPT ![c] =
                    Counted(f, o, OutcomesOf(calls, c), Changed(heap, heap'),
                            \A d \in 1..Len(calls) : d = c \/ calls[d].pc = "done")]

\* one pass of the loop of call c over rules_list
LoopStep(c) ==
    /\ calls[c].pc = "loop"
    /\ calls[c].i < Len(RulesList(heap[calls[c].rule_ast].v))
    /\ LoopBody(c, calls[c],
                RulesList(heap[calls[c].rule_ast].v)[calls[c].i + 1],
                _evaluate_rule(heap[calls[c].profile].v,
                               RulesList(heap[calls[c].rule_ast].v)[calls[c].i + 1]))
    /\ UNCHANGED <<profile, rule, rule_ast, schemes, scheme_rules, out, verdict,
                   results, pc, parsed, crawl>>

\* call c leaves the loop, computes score and eligibility and returns
Return(c) ==
    /\ calls[c].pc = "loop"
    /\ calls[c].i >= Len(RulesList(heap[calls[c].rule_ast].v))
    /\ calls' = [calls EXCEPT
                    ![c].pc = "done",
                    ![c].ret = Tally(calls[c].mode, calls[c].total_rules,
                                     calls[c].passing_rules, calls[c].failed_rules,
                                     OutcomesOf(calls, c)),
                    ![c].result = Tally(calls[c].mode, calls[c].total_rules,
                                        calls[c].passing_rules, calls[c].failed_rules,
                                        heap[OutcomesOf(calls, c)].v),
                    ![c].reads = @ \cup {OutcomesOf(calls, c)}]
    /\ UNCHANGED <<profile, rule, rule_ast, schemes, scheme_rules, out, verdict,
                   results, pc, heap, parsed, crawl>>

NextCalls ==
    \/ Enter
    \/ \E c \in 1..Len(calls) : LoopStep(c)
    \/ \E c \in 1..Len(calls) : Return(c)

SpecCalls == InitCalls /\ [][NextCalls]_vars


(***************************************************************************)
(* RuleParser (rule_parser.py): the rule extractor.                        *)
(*                                                                         *)
(* A text is a sequence of characters and a regular expression a term.     *)
(* The patterns are compiled with re.IGNORECASE: letters are compared in   *)
(* lower case, so the terms are written in lower case.  The three          *)
(* characters outside ASCII stand as "<en dash>", "<em dash>", "<rupee>".  *)
(***************************************************************************)
INDIAN_JOBS ==
    <<<<"f", "a", "r", "m", "e", "r">>,
      <<"e", "n", "g", "i", "n", "e", "e", "r">>,
      <<"s", "o", "f", "t", "w", "a", "r", "e", " ", "d", "e", "v", "e", "l", "o", "p", "e", "r">>,
      <<"d", "o", "c", "t", "o", "r">>,
      <<"n", "u", "r", "s", "e">>,
      <<"t", "e", "a", "c", "h", "e", "r">>,
      <<"p", "r", "o", "f", "e", "s", "s", "o", "r">>,
      <<"s", "t", "u", "d", "e", "n", "t">>,
      <<"l", "a", "b", "o", "u", "r", "e", "r">>,
      <<"s", "h", "o", "p", "k", "e", "e", "p", "e", "r">>,
      <<"m", "a", "n", "a", "g", "e", "r">>,
      <<"p", "o", "l", "i", "c", "e">>,
      <<"s", "o", "l", "d", "i", "e", "r">>,
      <<"a", "r", "m", "y">>,
      <<"g", "o", "v", "e", "r", "n", "m", "e", "n", "t", " ", "e", "m", "p", "l", "o", "y", "e", "e">>,
      <<"c", "i", "v", "i", "l", " ", "s", "e", "r", "v", "a", "n", "t">>,
      <<"a", "r", "t", "i", "s", "a", "n">>,
      <<"f", "i", "s", "h", "e", "r", "m", "a", "n">>,
      <<"d", "r", "i", "v", "e", "r">>,
      <<"c", "h", "e", "f">>,
      <<"e", "l", "e", "c", "t", "r", "i", "c", "i", "a", "n">>,
      <<"p", "l", "u", "m", "b", "e", "r">>,
      <<"c", "a", "r", "p", "e", "n", "t", "e", "r">>,
      <<"a", "c", "c", "o", "u", "n", "t", "a", "n", "t">>,
      <<"b", "a", "n", "k", "e", "r">>,
      <<"b", "u", "s", "i", "n", "e", "s", "s", " ", "o", "w", "n", "e", "r">>,
      <<"e", "n", "t", "r", "e", "p", "r", "e", "n", "e", "u", "r">>,
      <<"c", "l", "e", "a", "n", "e", "r">>,
      <<"s", "e", "c", "u", "r", "i", "t", "y", " ", "g", "u", "a", "r", "d">>,
      <<"a", "r", "c", "h", "i", "t", "e", "c", "t">>,
      <<"j", "o", "u", "r", "n", "a", "l", "i", "s", "t">>,
      <<"p", "h", "o", "t", "o", "g", "r", "a", "p", "h", "e", "r">>,
      <<"l", "a", "w", "y", "e", "r">>,
      <<"a", "d", "v", "o", "c", "a", "t", "e">>,
      <<"r", "e", "s", "e", "a", "r", "c", "h", "e", "r">>,
      <<"s", "c", "i", "e", "n", "t", "i", "s", "t">>,
      <<"d", "e", "l", "i", "v", "e", "r", "y", " ", "a", "g", "e", "n", "t">>,
      <<"r", "i", "c", "k", "s", "h", "a", "w", " ", "p", "u", "l", "l", "e", "r">>,
      <<"t", "a", "i", "l", "o", "r">>,
      <<"m", "e", "c", "h", "a", "n", "i", "c">>,
      <<"w", "e", "l", "d", "e", "r">>,
      <<"d", "a", "t", "a", " ", "e", "n", "t", "r", "y", " ", "o", "p", "e", "r", "a", "t", "o", "r">>,
      <<"c", "l", "e", "r", "k">>,
      <<"h", "o", "m", "e", " ", "m", "a", "k", "e", "r">>,
      <<"h", "o", "u", "s", "e", "w", "i", "f", "e">>,
      <<"u", "n", "e", "m", "p", "l", "o", "y", "e", "d">>,
      <<"r", "e", "t", "i", "r", "e", "d">>>>

\* self.patterns, with occupation_regex as __init__ adds it; the two
\* expressions written where they are used, r'\s+state$' and r',|\band\b',
\* are kept with them as state_suffix and separator
patterns ==
    LET Letters == {Lower[i] : i \in 1..26}
        Unbounded == -1
        Lit(cs) == [k |-> "lit", cs |-> cs]
        Rep(S, min, max, greedy) ==
            [k |-> "rep", S |-> S, min |-> min, max |-> max, greedy |-> greedy]
        Alt(rs) == [k |-> "alt", rs |-> rs]
        Cat(rs) == [k |-> "seq", rs |-> rs]
        Opt(r) == Alt(<<r, Cat(<<>>)>>)
        Grp(g, r) == [k |-> "grp", g |-> g, r |-> r]
        Wb == [k |-> "wb"]
        Eos == [k |-> "eos"]
        RECURSIVE Lits(_)
        Lits(words) ==
            IF words = <<>> THEN <<>>
            ELSE <<Lit(Head(words))>> \o Lits(Tail(words))
    IN
    [age_between |->
         Cat(<<Opt(Cat(<<Lit(<<"a", "g", "e">>),
                         Rep({"d"}, 0, 1, TRUE),
                         Rep(Space, 0, Unbounded, TRUE),
                         Opt(Lit(<<"o", "f">>)),
                         Rep(Space, 0, Unbounded, TRUE)>>)),
               Alt(<<Lit(<<"b", "e", "t", "w", "e", "e", "n">>),
                     Lit(<<"f", "r", "o", "m">>)>>),
               Rep(Space, 0, Unbounded, TRUE),
               Grp(1, Rep(Digits, 1, 3, TRUE)),
               Rep(Space, 0, Unbounded, TRUE),
               Alt(<<Lit(<<"-">>),
                     Lit(<<"<en dash>">>),
                     Lit(<<"<em dash>">>),
                     Cat(<<Rep(Space, 1, 1, TRUE),
                           Lit(<<"t", "o">>),
                           Rep(Space, 1, 1, TRUE)>>),
                     Lit(<<"a", "n", "d">>)>>),
               Rep(Space, 0, Unbounded, TRUE),
               Grp(2, Rep(Digits, 1, 3, TRUE))>>),
     age_simple_range |->
         Cat(<<Grp(1, Rep(Digits, 1, 3, TRUE)),
               Rep(Space, 0, Unbounded, TRUE),
               Alt(<<Lit(<<"-">>),
                     Lit(<<"<en dash>">>),
                     Lit(<<"<em dash>">>)>>),
               Rep(Space, 0, Unbounded, TRUE),
               Grp(2, Rep(Digits, 1, 3, TRUE)),
               Rep(Space, 0, Unbounded, TRUE),
               Opt(Cat(<<Lit(<<"y", "e", "a", "r">>),
                         Rep({"s"}, 0, 1, TRUE)>>))>>),
     age_min |->
         Cat(<<Opt(Alt(<<Cat(<<Lit(<<"a", "g", "e">>),
                               Rep(Space, 0, Unbounded, TRUE)>>),
                         Cat(<<Lit(<<"a", "p", "p", "l", "i", "c", "a", "n", "t">>),
                               Rep(Space, 0, Unbounded, TRUE)>>),
                         Cat(<<Lit(<<"a", "p", "p", "l", "i", "c", "a", "n", "t", "s">>),
                               Rep(Space, 0, Unbounded, TRUE)>>),
                         Cat(<<Lit(<<"a", "p", "p", "l", "i", "c", "a", "n", "t", "'", "s">>),
                               Rep(Space, 0, Unbounded, TRUE)>>)>>)),
               Alt(<<Lit(<<"o", "v", "e", "r">>),
                     Lit(<<"a", "b", "o", "v", "e">>),
                     Lit(<<"a", "t", " ", "l", "e", "a", "s", "t">>),
                     Lit(<<">", "=">>)>>),
               Rep(Space, 0, Unbounded, TRUE),
               Grp(1, Rep(Digits, 1, 3, TRUE))>>),
     age_max |->
         Cat(<<Opt(Alt(<<Cat(<<Lit(<<"a", "g", "e">>),
                               Rep(Space, 0, Unbounded, TRUE)>>),
                         Cat(<<Lit(<<"a", "p", "p", "l", "i", "c", "a", "n", "t">>),
                               Rep(Space, 0, Unbounded, TRUE)>>),
                         Cat(<<Lit(<<"a", "p", "p", "l", "i", "c", "a", "n", "t", "s">>),
                               Rep(Space, 0, Unbounded, TRUE)>>),
                         Cat(<<Lit(<<"a", "p", "p", "l", "i", "c", "a", "n", "t", "'", "s">>),
                               Rep(Space, 0, Unbounded, TRUE)>>)>>)),
               Alt(<<Lit(<<"u", "n", "d", "e", "r">>),
                     Lit(<<"b", "e", "l", "o", "w">>),
                     Lit(<<"l", "e", "s", "s", " ", "t", "h", "a", "n">>),
                     Lit(<<"<", "=">>),
                     Lit(<<"n", "o", "t", " ", "e", "x", "c", "e", "e", "d", "i", "n", "g">>)>>),
               Rep(Space, 0, Unbounded, TRUE),
               Grp(1, Rep(Digits, 1, 3, TRUE))>>),
     income_max |->
         Cat(<<Opt(Alt(<<Cat(<<Lit(<<"f", "a", "m", "i", "l", "y", "'", "s">>),
                               Rep(Space, 1, Unbounded, TRUE)>>),
                         Cat(<<Lit(<<"a", "n", "n", "u", "a", "l">>),
                               Rep(Space, 1, Unbounded, TRUE)>>),
                         Cat(<<Lit(<<"a", "n", "n", "u", "a", "l">>),
                               Rep(Space, 1, Unbounded, TRUE),
                               Lit(<<"f", "a", "m", "i", "l", "y">>),
                               Rep(Space, 1, Unbounded, TRUE)>>),
                         Cat(<<Lit(<<"f", "a", "m", "i", "l", "y">>),
                               Rep(Space, 1, Unbounded, TRUE),
                               Lit(<<"a", "n", "n", "u", "a", "l">>),
                               Rep(Space, 1, Unbounded, TRUE)>>)>>)),
               Alt(<<Lit(<<"i", "n", "c", "o", "m", "e">>),
                     Lit(<<"e", "a", "r", "n", "i", "n", "g", "s">>),
                     Lit(<<"a", "n", "n", "u", "a", "l", " ", "i", "n", "c", "o", "m", "e">>),
                     Lit(<<"f", "a", "m", "i", "l", "y", " ", "i", "n", "c", "o", "m", "e">>),
                     Lit(<<"t", "o", "t", "a", "l", " ", "f", "a", "m", "i", "l", "y", " ", "i", "n", "c", "o", "m", "e">>)>>),
               Rep(Space, 0, Unbounded, TRUE),
               Opt(Alt(<<Lit(<<"s", "h", "o", "u", "l", "d", " ", "b", "e">>),
                         Lit(<<"s", "h", "o", "u", "l", "d", " ", "n", "o", "t", " ", "e", "x", "c", "e", "e", "d">>),
                         Lit(<<"s", "h", "o", "u", "l", "d", " ", "n", "o", "t", " ", "b", "e", " ", "m", "o", "r", "e", " ", "t", "h", "a", "n">>),
                         Lit(<<"s", "h", "o", "u", "l", "d", " ", "b", "e", " ", "l", "e", "s", "s", " ", "t", "h", "a", "n">>),
                         Lit(<<"i", "s">>),
                         Lit(<<"a", "r", "e">>),
                         Lit(<<":">>)>>)),
               Rep(Space, 0, Unbounded, TRUE),
               Opt(Alt(<<Lit(<<"l", "e", "s", "s", " ", "t", "h", "a", "n">>),
                         Lit(<<"b", "e", "l", "o", "w">>),
                         Lit(<<"u", "n", "d", "e", "r">>),
                         Lit(<<"n", "o", "t", " ", "e", "x", "c", "e", "e", "d", "i", "n", "g">>)>>)),
               Rep(Space, 0, Unbounded, TRUE),
               Opt(Alt(<<Lit(<<"<rupee>">>),
                         Cat(<<Lit(<<"r", "s">>), Rep({"."}, 0, 1, TRUE)>>),
                         Lit(<<"i", "n", "r">>)>>)),
               Rep(Space, 0, Unbounded, TRUE),
               Grp(1, Cat(<<Rep(Digits \cup {","}, 1, Unbounded, TRUE),
                            Opt(Cat(<<Lit(<<".">>),
                                      Rep(Digits, 1, Unbounded, TRUE)>>))>>)),
               Rep(Space, 0, Unbounded, TRUE),
               Opt(Alt(<<Lit(<<"l", "a", "k", "h">>),
                         Lit(<<"l", "a", "k", "h", "s">>),
                         Lit(<<"l", "a", "c", "s">>),
                         Lit(<<"t", "h", "o", "u", "s", "a", "n", "d">>),
                         Lit(<<"k">>),
                         Lit(<<"p", "e", "r", " ", "a", "n", "n", "u", "m">>),
                         Lit(<<"p", "e", "r", " ", "y", "e", "a", "r">>),
                         Lit(<<"/", "y", "e", "a", "r">>),
                         Lit(<<"p", "a">>),
                         Lit(<<"p", ".", "a", ".">>),
                         Lit(<<"a", "n", "n", "u", "m">>)>>))>>),
     income_min |->
         Cat(<<Alt(<<Lit(<<"i", "n", "c", "o", "m", "e">>),
                     Lit(<<"e", "a", "r", "n", "i", "n", "g", "s">>),
                     Lit(<<"a", "n", "n", "u", "a", "l", " ", "i", "n", "c", "o", "m", "e">>),
                     Lit(<<"f", "a", "m", "i", "l", "y", " ", "i", "n", "c", "o", "m", "e">>)>>),
               Rep(Space, 0, Unbounded, TRUE),
               Alt(<<Lit(<<"s", "h", "o", "u", "l", "d", " ", "b", "e">>),
                     Lit(<<"s", "h", "o", "u", "l", "d", " ", "e", "x", "c", "e", "e", "d">>),
                     Lit(<<"m", "u", "s", "t", " ", "b", "e">>),
                     Lit(<<"m", "o", "r", "e", " ", "t", "h", "a", "n">>),
                     Lit(<<"o", "v", "e", "r">>)>>),
               Rep(Space, 0, Unbounded, TRUE),
               Opt(Alt(<<Lit(<<"<rupee>">>),
                         Cat(<<Lit(<<"r", "s">>), Rep({"."}, 0, 1, TRUE)>>),
                         Lit(<<"i", "n", "r">>)>>)),
               Rep(Space, 0, Unbounded, TRUE),
               Grp(1, Cat(<<Rep(Digits \cup {","}, 1, Unbounded, TRUE),
                            Opt(Cat(<<Lit(<<".">>),
                                      Rep(Digits, 1, Unbounded, TRUE)>>))>>))>>),
     gender_keywords |->
         Cat(<<Wb,
               Grp(1, Alt(<<Lit(<<"w", "o", "m", "e", "n">>),
                            Lit(<<"w", "o", "m", "a", "n">>),
                            Lit(<<"f", "e", "m", "a", "l", "e">>),
                            Lit(<<"w", "i", "d", "o", "w">>),
                            Lit(<<"w", "i", "d", "o", "w", "s">>),
                            Lit(<<"m", "e", "n">>),
                            Lit(<<"m", "a", "n">>),
                            Lit(<<"m", "a", "l", "e">>)>>)),
               Wb>>),
     state_regex |->
         Cat(<<Wb,
               Lit(<<"r", "e", "s", "i", "d", "e", "n", "t">>),
               Rep(Space, 1, Unbounded, TRUE),
               Opt(Alt(<<Lit(<<"o", "f">>), Lit(<<"i", "n">>)>>)),
               Rep(Space, 1, Unbounded, TRUE),
               Grp(1, Cat(<<Rep(Letters, 0, 1, TRUE),
                            Rep(Letters \cup Digits \cup Space \cup {"&", "-"}, 1, Unbounded, FALSE)>>)),
               Alt(<<Rep({".", "\n", ",", ";"}, 1, 1, TRUE), Eos>>)>>),
     not_eligible_for |->
         Alt(<<Cat(<<Grp(1, Rep(Letters \cup Digits \cup Space \cup {"-", "&"}, 1, Unbounded, FALSE)),
                     Rep(Space, 1, Unbounded, TRUE),
                     Alt(<<Lit(<<"a", "r", "e">>),
                           Lit(<<"i", "s">>),
                           Lit(<<"w", "e", "r", "e">>),
                           Lit(<<"b", "e", "i", "n", "g">>),
                           Lit(<<"b", "e">>)>>),
                     Rep(Space, 1, Unbounded, TRUE),
                     Lit(<<"n", "o", "t">>),
                     Rep(Space, 1, Unbounded, TRUE),
                     Lit(<<"e", "l", "i", "g", "i", "b", "l", "e">>)>>),
               Cat(<<Lit(<<"n", "o", "t">>),
                     Rep(Space, 1, Unbounded, TRUE),
                     Lit(<<"e", "l", "i", "g", "i", "b", "l", "e">>),
                     Rep(Space, 1, Unbounded, TRUE),
                     Lit(<<"f", "o", "r">>),
                     Rep(Space, 1, Unbounded, TRUE),
                     Grp(2, Rep(Letters \cup Digits \cup Space \cup {"-", "&"}, 1, Unbounded, TRUE))>>)>>),
     caste_sc |->
         Cat(<<Wb,
               Grp(1, Alt(<<Lit(<<"s", "c">>),
                            Cat(<<Lit(<<"s", "c", "h", "e", "d", "u", "l", "e", "d">>),
                                  Rep(Space, 1, Unbounded, TRUE),
                                  Lit(<<"c", "a", "s", "t", "e">>)>>),
                            Cat(<<Lit(<<"s", "c", "h", "e", "d", "u", "l", "e", "d">>),
                                  Rep(Space, 1, Unbounded, TRUE),
                                  Lit(<<"c", "a", "s", "t", "e", "s">>)>>)>>)),
               Wb>>),
     caste_st |->
         Cat(<<Wb,
               Grp(1, Alt(<<Lit(<<"s", "t">>),
                            Cat(<<Lit(<<"s", "c", "h", "e", "d", "u", "l", "e", "d">>),
                                  Rep(Space, 1, Unbounded, TRUE),
                                  Lit(<<"t", "r", "i", "b", "e">>)>>),
                            Cat(<<Lit(<<"s", "c", "h", "e", "d", "u", "l", "e", "d">>),
                                  Rep(Space, 1, Unbounded, TRUE),
                                  Lit(<<"t", "r", "i", "b", "e", "s">>)>>)>>)),
               Wb>>),
     caste_obc |->
         Cat(<<Wb,
               Grp(1, Alt(<<Lit(<<"o", "b", "c">>),
                            Cat(<<Lit(<<"o", "t", "h", "e", "r">>),
                                  Rep(Space, 1, Unbounded, TRUE),
                                  Lit(<<"b", "a", "c", "k", "w", "a", "r", "d">>),
                                  Rep(Space, 1, Unbounded, TRUE),
                                  Lit(<<"c", "l", "a", "s", "s">>)>>),
                            Cat(<<Lit(<<"b", "a", "c", "k", "w", "a", "r", "d">>),
                                  Rep(Space, 1, Unbounded, TRUE),
                                  Lit(<<"c", "l", "a", "s", "s">>)>>)>>)),
               Wb>>),
     caste_general |->
         Cat(<<Wb,
               Grp(1, Alt(<<Lit(<<"g", "e", "n", "e", "r", "a", "l">>),
                            Lit(<<"u", "n", "r", "e", "s", "e", "r", "v", "e", "d">>),
                            Lit(<<"u", "r">>)>>)),
               Wb>>),
     occupation_regex |->
         Cat(<<Wb, Grp(1, Alt(Lits(INDIAN_JOBS))), Rep({"s"}, 0, 1, TRUE), Wb>>),
     state_suffix |->
         Cat(<<Rep(Space, 1, Unbounded, TRUE),
               Lit(<<"s", "t", "a", "t", "e">>),
               Eos>>),
     separator |->
         Alt(<<Lit(<<",">>), Cat(<<Wb, Lit(<<"a", "n", "d">>), Wb>>)>>)]

(***************************************************************************)
(* pattern.search(s) from position from on: the match at the leftmost      *)
(* position that has one, and at that position the first match in the      *)
(* order the backtracking matcher of re tries them.  MatchAt matches the   *)
(* terms of todo one after another from position i; caps holds where each  *)
(* group began and ended (0: the group took no part).                      *)
(***************************************************************************)
Search(re, s, from) ==
    LET NoMatch == [ok |-> FALSE]
        \* of the attempts, tried in the order of their numbers n, the first
        \* that matched
        First(tries) ==
            IF \A t \in tries : ~t.m.ok THEN NoMatch
            ELSE (CHOOSE t \in tries :
                     t.m.ok /\ \A u \in tries : u.m.ok => t.n <= u.n).m
        \* the text in lower case
        low == SubSeq(ToLower(s), 1, Len(s))
        IsWord(i) ==
            /\ i >= 1
            /\ i <= Len(s)
            /\ \/ low[i] \in Digits
               \/ low[i] = "_"
               \/ \E j \in 1..26 : Lower[j] = low[i]
        \* how many characters from position i on are in S, max at most
        Upto(n, max) == IF max >= 0 /\ n > max THEN max ELSE n
        Run(S, i, max) ==
            Upto(Cardinality({j \in i..Len(s) :
                                 \A k \in i..j : low[k] \in S}), max)
        RECURSIVE MatchAt(_, _, _)
        \* a repetition of count characters and then the rest, for every
        \* count from run down to the minimum (greedy) or from the minimum
        \* up to run (lazy)
        MatchRep(n, rest, i, caps, run) ==
            First({[n |-> IF n.greedy THEN run - count ELSE count,
                    m |-> MatchAt(rest, i + count, caps)] : count \in n.min..run})
        \* the alternatives from left to right, each followed by the rest
        MatchAlt(rs, rest, i, caps) ==
            First({[n |-> k, m |-> MatchAt(<<rs[k]>> \o rest, i, caps)] :
                      k \in 1..Len(rs)})
        MatchAt(todo, i, caps) ==
            IF todo = <<>> THEN [ok |-> TRUE, e |-> i, caps |-> caps]
            ELSE CASE Head(todo).k = "lit" ->
                        IF /\ i + Len(Head(todo).cs) - 1 <= Len(s)
                           /\ \A j \in 1..Len(Head(todo).cs) :
                                  low[i + j - 1] = Head(todo).cs[j]
                        THEN MatchAt(Tail(todo), i + Len(Head(todo).cs), caps)
                        ELSE NoMatch
                   [] Head(todo).k = "rep" ->
                        MatchRep(Head(todo), Tail(todo), i, caps,
                                 Run(Head(todo).S, i, Head(todo).max))
                   [] Head(todo).k = "seq" ->
                        MatchAt(Head(todo).rs \o Tail(todo), i, caps)
                   [] Head(todo).k = "alt" ->
                        MatchAlt(Head(todo).rs, Tail(todo), i, caps)
                   [] Head(todo).k = "grp" ->
                        MatchAt(<<[k |-> "open", g |-> Head(todo).g], Head(todo).r,
                                  [k |-> "close", g |-> Head(todo).g]>>
                                \o Tail(todo), i, caps)
                   [] Head(todo).k = "open" ->
                        MatchAt(Tail(todo), i,
                                [caps EXCEPT ![Head(todo).g] = [b |-> i, e |-> i]])
                   [] Head(todo).k = "close" ->
                        MatchAt(Tail(todo), i, [caps EXCEPT ![Head(todo).g].e = i])
                   [] Head(todo).k = "wb" ->
                        IF IsWord(i - 1) # IsWord(i)
                        THEN MatchAt(Tail(todo), i, caps)
                        ELSE NoMatch
                   [] Head(todo).k = "eos" ->
                        IF i = Len(s) + 1 \/ (i = Len(s) /\ s[i] = "\n")
                        THEN MatchAt(Tail(todo), i, caps)
                        ELSE NoMatch
        From(b, m) ==
            IF m.ok THEN [ok |-> TRUE, b |-> b, e |-> m.e, caps |-> m.caps]
            ELSE NoMatch
    IN  First({[n |-> b,
                m |-> From(b, MatchAt(<<re>>, b,
                                      <<[b |-> 0, e |-> 0], [b |-> 0, e |-> 0]>>))] :
                  b \in from..(Len(s) + 1)})

\* m.group(g), the empty string standing for None as well
Group(s, m, g) ==
    IF m.caps[g].b = 0 THEN <<>> ELSE SubSeq(s, m.caps[g].b, m.caps[g].e - 1)

\* RuleParser._clean_amount(amt_str): an int, a float when there is a '.',
\* None when neither reads
_clean_amount(amt_str) ==
    LET Clean(s) ==
            IF \E i \in 1..Len(s) : s[i] = "."
            THEN IF FloatOk(s) THEN PyFloat(FloatVal(s)) ELSE PyNone
            ELSE IF IntOk(s) THEN PyInt(DigitsVal(s)) ELSE PyNone
    IN  Clean(Strip(Remove(amt_str, ",")))

\* every age pattern applied, whatever the others found
_parse_ageAll(text) ==
    LET Value(m, g) == PyInt(DigitsVal(Group(text, m, g)))
        RangeOf(m) ==
            IF m.ok THEN <<Cond("age", ">=", Value(m, 1)), Cond("age", "<=", Value(m, 2))>>
            ELSE <<>>
        BoundOf(op, m) == IF m.ok THEN <<Cond("age", op, Value(m, 1))>> ELSE <<>>
    IN  RangeOf(Search(patterns.age_between, text, 1))
        \o RangeOf(Search(patterns.age_simple_range, text, 1))
        \o BoundOf(">=", Search(patterns.age_min, text, 1))
        \o BoundOf("<=", Search(patterns.age_max, text, 1))

\* RuleParser._parse_age(text): the range of 'between A and B', else the
\* range 'A-B', else the bounds of the minimum and the maximum pattern
_parse_age(text) ==
    LET \* int(a)
        AsInt(a) == IF a.t = "float" THEN PyInt(a.n \div Scale) ELSE a
        Range(m, a, b) ==
            IF m.ok /\ a # PyNone /\ b # PyNone
            THEN <<Cond("age", ">=", AsInt(a)), Cond("age", "<=", AsInt(b))>>
            ELSE <<>>
        RangeOf(m) ==
            IF m.ok
            THEN Range(m, _clean_amount(Group(text, m, 1)),
                       _clean_amount(Group(text, m, 2)))
            ELSE <<>>
        Bound(op, m, a) ==
            IF m.ok /\ a # PyNone THEN <<Cond("age", op, AsInt(a))>> ELSE <<>>
        BoundOf(op, m) ==
            IF m.ok THEN Bound(op, m, _clean_amount(Group(text, m, 1))) ELSE <<>>
        Rules(between, range) ==
            IF between # <<>> THEN between
            ELSE IF range # <<>> THEN range
            ELSE BoundOf(">=", Search(patterns.age_min, text, 1))
                 \o BoundOf("<=", Search(patterns.age_max, text, 1))
    IN  Rules(RangeOf(Search(patterns.age_between, text, 1)),
              RangeOf(Search(patterns.age_simple_range, text, 1)))

\* RuleParser._parse_income(text)
_parse_income(text) ==
    LET Bound(op, m, amt) ==
            IF m.ok /\ amt # PyNone THEN <<Cond("income", op, amt)>> ELSE <<>>
        BoundOf(op, m) ==
            IF m.ok THEN Bound(op, m, _clean_amount(Group(text, m, 1))) ELSE <<>>
    IN  BoundOf("<=", Search(patterns.income_max, text, 1))
        \o BoundOf(">=", Search(patterns.income_min, text, 1))

\* RuleParser._normalize_token(s)
_normalize_token(s) ==
    LET \* re.sub(r'\s+state$', '', t, flags=re.IGNORECASE).strip()
        Cut(t, m) == IF m.ok THEN Strip(SubSeq(t, 1, m.b - 1)) ELSE Strip(t)
        DropState(t) == Cut(t, Search(patterns.state_suffix, t, 1))
        \* if t.endswith('s') and len(t) > 3: t = t[:-1]
        Singular(t) ==
            IF Len(t) > 3 /\ t[Len(t)] = "s" THEN SubSeq(t, 1, Len(t) - 1) ELSE t
    IN  Singular(DropState(Strip(ToLower(s))))

\* a scheduled caste requirement written as a nested tree of alternatives
_parse_casteNested(text) ==
    IF Search(patterns.caste_sc, text, 1).ok
    THEN {<<AnyTree(<<Cond("caste", "==", PyStr(<<"S", "C">>))>>)>>}
    ELSE {<<>>}

\* RuleParser._parse_caste(text): the lists it can return; list(castes_found)
\* has the names in the order the hashing of the set decides, so any order
_parse_caste(text) ==
    LET names ==
            <<<<"S", "c", "h", "e", "d", "u", "l", "e", "d", " ",
                "C", "a", "s", "t", "e", " ", "(", "S", "C", ")">>,
              <<"S", "c", "h", "e", "d", "u", "l", "e", "d", " ",
                "T", "r", "i", "b", "e", " ", "(", "S", "T", ")">>,
              <<"O", "t", "h", "e", "r", " ", "B", "a", "c", "k", "w", "a", "r", "d", " ",
                "C", "l", "a", "s", "s", "e", "s", " ", "(", "O", "B", "C", ")">>,
              <<"G", "e", "n", "e", "r", "a", "l", "/",
                "U", "n", "r", "e", "s", "e", "r", "v", "e", "d">>>>
        found(k) ==
            Search(<<patterns.caste_sc, patterns.caste_st, patterns.caste_obc,
                     patterns.caste_general>>[k], text, 1).ok
        RECURSIVE Lists(_)
        Lists(castes_found) ==
            IF castes_found = {} THEN {<<>>}
            ELSE UNION {{<<names[k]>> \o rest : rest \in Lists(castes_found \ {k})} :
                           k \in castes_found}
        Rules(castes_found) ==
            IF castes_found # {}
            THEN {<<Cond("caste", "in", PyList(value))>> : value \in Lists(castes_found)}
            ELSE {<<>>}
    IN  Rules({k \in 1..4 : found(k)})

\* pattern.finditer(s): the matches from left to right, none overlapping
RECURSIVE FindAll(_, _, _)
FindAll(re, s, from) ==
    LET After(m) ==
            IF ~m.ok THEN <<>>
            ELSE <<m>> \o FindAll(re, s, IF m.e > m.b THEN m.e ELSE m.e + 1)
    IN  After(Search(re, s, from))

\* the set excluded of _parse_categorical: the normalised parts of what the
\* 'not eligible' phrases of the text name
excluded(text) ==
    LET \* re.split(r',|\band\b', group, flags=re.IGNORECASE)
        RECURSIVE Split(_, _, _)
        Split(group, seps, from) ==
            IF seps = <<>> THEN <<SubSeq(group, from, Len(group))>>
            ELSE <<SubSeq(group, from, Head(seps).b - 1)>>
                 \o Split(group, Tail(seps), Head(seps).e)
        Norms(parts) ==
            {_normalize_token(parts[i]) : i \in 1..Len(parts)} \ {<<>>}
        Tokens(group) ==
            IF group = <<>> THEN {}
            ELSE Norms(Split(group, FindAll(patterns.separator, group, 1), 1))
        FirstGroup(m, g1) == IF g1 # <<>> THEN g1 ELSE Group(text, m, 2)
        Excluded(ms) ==
            UNION {Tokens(Strip(FirstGroup(ms[i], Group(text, ms[i], 1)))) :
                      i \in 1..Len(ms)}
    IN  Excluded(FindAll(patterns.not_eligible_for, text, 1))

\* the set occ_norms of _parse_categorical: the occupations the text names,
\* normalised
occ_norms(text) ==
    LET Groups(ms) == {Group(text, ms[i], 1) : i \in 1..Len(ms)} \ {<<>>}
    IN  {_normalize_token(o) :
            o \in Groups(FindAll(patterns.occupation_regex, text, 1))}

\* every occupation named is required, the excluded ones too
positive_occsUnfiltered(occs, excl) == occs

\* positive_occs of _parse_categorical, as a set
positive_occs(occs, excl) == occs \ excl

\* the male terms looked for first
GenderRuleMaleFirst(lowered) ==
    IF lowered \cap {<<"m", "a", "l", "e">>, <<"m", "e", "n">>, <<"m", "a", "n">>} # {}
    THEN <<Cond("gender", "==", PyStr(male))>>
    ELSE IF lowered # {}
    THEN <<Cond("gender", "==", PyStr(female))>>
    ELSE <<>>

\* the gender condition of _parse_categorical for the terms found, lowered
GenderRule(lowered) ==
    IF lowered \cap {<<"f", "e", "m", "a", "l", "e">>, <<"w", "o", "m", "e", "n">>,
                     <<"w", "o", "m", "a", "n">>, <<"w", "i", "d", "o", "w">>,
                     <<"w", "i", "d", "o", "w", "s">>} # {}
    THEN <<Cond("gender", "==", PyStr(female))>>
    ELSE IF lowered \cap {<<"m", "a", "l", "e">>, <<"m", "e", "n">>,
                          <<"m", "a", "n">>} # {}
    THEN <<Cond("gender", "==", PyStr(male))>>
    ELSE <<>>

\* RuleParser._parse_categorical(text)
_parse_categorical(text) ==
    LET \* sorted(S) for a set S of strings
        RECURSIVE SortedStrings(_)
        Then(S, x) == <<x>> \o SortedStrings(S \ {x})
        SortedStrings(S) ==
            IF S = {} THEN <<>>
            ELSE Then(S, CHOOSE x \in S : \A y \in S : ~StrLess(y, x))
        \* re.sub(r'\s+state$', '', location, flags=re.IGNORECASE).strip()
        Cut(t, m) == IF m.ok THEN Strip(SubSeq(t, 1, m.b - 1)) ELSE Strip(t)
        DropState(t) == Cut(t, Search(patterns.state_suffix, t, 1))
        Groups(ms) == {Group(text, ms[i], 1) : i \in 1..Len(ms)} \ {<<>>}
        Occupation(excl, positive) ==
            (IF positive # {}
             THEN <<Cond("occupation", "in", PyList(SortedStrings(positive)))>>
             ELSE <<>>)
            \o (IF excl # {}
                THEN <<Cond("occupation", "not_in", PyList(SortedStrings(excl)))>>
                ELSE <<>>)
        Occupations(excl) == Occupation(excl, positive_occs(occ_norms(text), excl))
        State(loc) ==
            IF loc.ok
            THEN <<Cond("state", "in",
                        PyList(<<DropState(Strip(Group(text, loc, 1)))>>))>>
            ELSE <<>>
    IN  Occupations(excluded(text))
        \o GenderRule({SubSeq(ToLower(g), 1, Len(g)) :
                          g \in Groups(FindAll(patterns.gender_keywords, text, 1))})
        \o State(Search(patterns.state_regex, text, 1))

\* the confidence left at 1.0 whatever was found
ConfidenceSure(conditions) == 1

\* the confidence parse_text reports, 1 for 1.0 and 0 for 0.0
Confidence(conditions) == IF conditions = <<>> THEN 0 ELSE 1

\* RuleParser.parse_text(text): the pairs (rule_structure, confidence) it can
\* return, one for each order the caste names can come in
parse_text(text) ==
    LET Result(conditions) ==
            [rule_structure |-> AllTree(conditions),
             confidence |-> Confidence(conditions)]
        Parsed(t, found) ==
            {Result(found \o caste) : caste \in _parse_caste(t)}
        Parse(t) ==
            Parsed(t, _parse_age(t) \o _parse_income(t) \o _parse_categorical(t))
    IN  Parse(Strip(text))


(***************************************************************************)
(* The JSON text a rule tree is kept as between extraction and evaluation  *)
(* (column rule_json, written by json.dumps and read by json.loads).       *)
(***************************************************************************)
\* the characters of the names rule trees are written with
Spelling ==
    ("all" :> <<"a", "l", "l">>) @@ ("any" :> <<"a", "n", "y">>)
    @@ ("field" :> <<"f", "i", "e", "l", "d">>) @@ ("op" :> <<"o", "p">>)
    @@ ("value" :> <<"v", "a", "l", "u", "e">>)
    @@ ("age" :> <<"a", "g", "e">>) @@ ("income" :> <<"i", "n", "c", "o", "m", "e">>)
    @@ ("occupation" :> <<"o", "c", "c", "u", "p", "a", "t", "i", "o", "n">>)
    @@ ("gender" :> <<"g", "e", "n", "d", "e", "r">>)
    @@ ("state" :> <<"s", "t", "a", "t", "e">>)
    @@ ("caste" :> <<"c", "a", "s", "t", "e">>)
    @@ (">=" :> <<">", "=">>) @@ ("<=" :> <<"<", "=">>) @@ ("==" :> <<"=", "=">>)
    @@ ("in" :> <<"i", "n">>) @@ ("not_in" :> <<"n", "o", "t", "_", "i", "n">>)

\* a float written as the whole number before its point
JsonNumberTruncated(v) == IntStr(IF v.t = "int" THEN v.n ELSE v.n \div Scale)

\* json.dumps of an int or a float: int.__repr__, float.__repr__
JsonNumber(v) == IF v.t = "int" THEN IntStr(v.n) ELSE FloatStr(v.n)

\* json.dumps(rule_json) for a rule tree
JsonDumps(rule_json) ==
    LET Escape(c) ==
            CASE c = "\"" -> <<"\\", "\"">>
              [] c = "\\" -> <<"\\", "\\">>
              [] c = "\n" -> <<"\\", "n">>
              [] c = "\t" -> <<"\\", "t">>
              [] OTHER -> <<c>>
        RECURSIVE Escaped(_)
        Escaped(cs) ==
            IF cs = <<>> THEN <<>> ELSE Escape(Head(cs)) \o Escaped(Tail(cs))
        Quote(cs) == <<"\"">> \o Escaped(cs) \o <<"\"">>
        RECURSIVE Join(_)
        Join(items) ==
            IF items = <<>> THEN <<>>
            ELSE IF Len(items) = 1 THEN Head(items)
            ELSE Head(items) \o <<",", " ">> \o Join(Tail(items))
        RECURSIVE Quoted(_)
        Quoted(strs) ==
            IF strs = <<>> THEN <<>> ELSE <<Quote(Head(strs))>> \o Quoted(Tail(strs))
        Array(items) == <<"[">> \o Join(items) \o <<"]">>
        Object(members) == <<"{">> \o Join(members) \o <<"}">>
        Member(name, text) == Quote(Spelling[name]) \o <<":", " ">> \o text
        Value(v) ==
            CASE v.t \in {"int", "float"} -> JsonNumber(v)
              [] v.t = "str" -> Quote(v.s)
              [] v.t = "list" -> Array(Quoted(v.l))
              [] v.t = "bool" ->
                   IF v.n = 1 THEN <<"t", "r", "u", "e">>
                   ELSE <<"f", "a", "l", "s", "e">>
              [] v.t = "none" -> <<"n", "u", "l", "l">>
        Condition(r) ==
            Object(<<Member("field", Quote(Spelling[r.field])),
                     Member("op", Quote(Spelling[r.op])),
                     Member("value", Value(r.value))>>)
        RECURSIVE Conditions(_)
        Conditions(rules) ==
            IF rules = <<>> THEN <<>>
            ELSE <<Condition(Head(rules))>> \o Conditions(Tail(rules))
    IN  Object((IF "any" \in rule_json.keys
                THEN <<Member("any", Array(Conditions(rule_json.any)))>>
                ELSE <<>>)
               \o (IF "all" \in rule_json.keys
                   THEN <<Member("all", Array(Conditions(rule_json.all)))>>
                   ELSE <<>>))

\* json.loads(s) for the text of a rule tree: a value is read from position
\* i on and returned with the position e after it
JsonLoads(s) ==
    LET Read(v, e) == [v |-> v, e |-> e]
        \* the position of the first character from i on that is not blank
        Skip(i) ==
            i + Cardinality({j \in i..Len(s) : \A k \in i..j : s[k] \in Space})
        Unescape(c) ==
            CASE c = "n" -> "\n" [] c = "t" -> "\t" [] OTHER -> c
        \* the characters of a string from i on, up to the quote that ends it
        RECURSIVE StringFrom(_, _)
        StringFrom(i, acc) ==
            IF s[i] = "\"" THEN Read(acc, i + 1)
            ELSE IF s[i] = "\\"
                 THEN StringFrom(i + 2, Append(acc, Unescape(s[i + 1])))
                 ELSE StringFrom(i + 1, Append(acc, s[i]))
        \* a number: an int, a float when it has a point
        Digit(i) == i <= Len(s) /\ s[i] \in Digits \cup {"."}
        NumberEnd(i) ==
            i + Cardinality({j \in i..Len(s) : \A k \in i..j : Digit(k)})
        Unsigned(cs) ==
            IF \E j \in 1..Len(cs) : cs[j] = "." THEN PyFloat(FloatVal(cs))
            ELSE PyInt(DigitsVal(cs))
        Negated(v) == [v EXCEPT !.n = -v.n]
        NumberFrom(i) ==
            IF s[i] = "-"
            THEN Read(Negated(Unsigned(SubSeq(s, i + 1, NumberEnd(i + 1) - 1))),
                      NumberEnd(i + 1))
            ELSE Read(Unsigned(SubSeq(s, i, NumberEnd(i) - 1)), NumberEnd(i))
        Atom(cs) == CHOOSE a \in DOMAIN Spelling : Spelling[a] = cs
        Has(members, name) == \E k \in 1..Len(members) : members[k].name = name
        Get(members, name) ==
            members[CHOOSE k \in 1..Len(members) :
                       /\ members[k].name = name
                       /\ \A j \in (k + 1)..Len(members) : members[j].name # name].v
        \* a dict with the key 'field' is an atomic condition, any other a
        \* rule tree
        Dict(members) ==
            IF ~Has(members, "field")
            THEN Tree({name \in {"all", "any"} : Has(members, name)},
                      IF Has(members, "any") THEN Get(members, "any").l ELSE <<>>,
                      IF Has(members, "all") THEN Get(members, "all").l ELSE <<>>)
            ELSE Cond(Atom(Get(members, "field").s), Atom(Get(members, "op").s),
                      Get(members, "value"))
        RECURSIVE Value(_), Items(_, _), Members(_, _)
        \* a list holds its strings by their characters
        Element(v) == IF "t" \in DOMAIN v /\ v.t = "str" THEN v.s ELSE v
        ItemsAfter(x, acc, k) ==
            IF s[k] = "," THEN Items(k + 1, Append(acc, Element(x.v)))
            ELSE Read(PyList(Append(acc, Element(x.v))), k + 1)
        ItemsWith(x, acc) == ItemsAfter(x, acc, Skip(x.e))
        Items(i, acc) ==
            IF s[Skip(i)] = "]" THEN Read(PyList(acc), Skip(i) + 1)
            ELSE ItemsWith(Value(Skip(i)), acc)
        MembersAfter(name, x, acc, k) ==
            IF s[k] = ","
            THEN Members(k + 1, Append(acc, [name |-> Atom(name.v), v |-> x.v]))
            ELSE Read(Dict(Append(acc, [name |-> Atom(name.v), v |-> x.v])), k + 1)
        MembersWith(name, x, acc) == MembersAfter(name, x, acc, Skip(x.e))
        MembersNamed(name, acc) ==
            MembersWith(name, Value(Skip(Skip(name.e) + 1)), acc)
        Members(i, acc) ==
            IF s[Skip(i)] = "}" THEN Read(Dict(acc), Skip(i) + 1)
            ELSE MembersNamed(StringFrom(Skip(i) + 1, <<>>), acc)
        AsStr(x) == Read(PyStr(x.v), x.e)
        Value(i) ==
            CASE s[i] = "\"" -> AsStr(StringFrom(i + 1, <<>>))
              [] s[i] = "[" -> Items(i + 1, <<>>)
              [] s[i] = "{" -> Members(i + 1, <<>>)
              [] s[i] = "t" -> Read(PyBool(TRUE), i + 4)
              [] s[i] = "f" -> Read(PyBool(FALSE), i + 5)
              [] s[i] = "n" -> Read(PyNone, i + 4)
              [] OTHER -> NumberFrom(i)
    IN  Value(Skip(1)).v

(***************************************************************************)
(* A text is parsed, the rule tree is stored as JSON, read back and        *)
(* evaluated against a profile (specification SpecParse).                  *)
(***************************************************************************)
\* the phrases the texts are made of
Fragments ==
    <<<<"b", "e", "t", "w", "e", "e", "n", " ", "1", "8", " ", "a", "n", "d", " ", "3", "5">>,
      <<"i", "n", "c", "o", "m", "e", " ", "b", "e", "l", "o", "w", " ", "2", ".", "5", " ", "l", "a", "k", "h">>,
      <<"w", "o", "m", "e", "n", " ", "f", "a", "r", "m", "e", "r", "s">>,
      <<"S", "C", " ", "a", "n", "d", " ", "S", "T">>,
      <<"t", "e", "a", "c", "h", "e", "r", "s", " ", "a", "r", "e", " ", "n", "o", "t", " ", "e", "l", "i", "g", "i", "b", "l", "e">>,
      <<"i", "n", "c", "o", "m", "e", ":", " ", ",">>,
      <<"x", "y", "z">>>>

\* the empty text and the texts of up to MaxFragments different phrases,
\* one blank between two
Texts ==
    LET RECURSIVE Joined(_)
        Joined(ks) ==
            IF ks = <<>> THEN <<>>
            ELSE IF Len(ks) = 1 THEN Fragments[Head(ks)]
            ELSE Fragments[Head(ks)] \o <<" ">> \o Joined(Tail(ks))
        Different(ks) == \A i, j \in 1..Len(ks) : i # j => ks[i] # ks[j]
    IN  {Joined(ks) : ks \in {c \in SeqsUpTo(1..Len(Fragments), MaxFragments) :
                                 Different(c)}}

ParseProfiles ==
    {[age |-> PyInt(30), income |-> PyFloat((22 * Scale) \div 10),
      gender |-> PyStr(Female), occupation |-> PyStr(<<"f", "a", "r", "m", "e", "r">>),
      state |-> PyStr(<<"k", "e", "r", "a", "l", "a">>),
      caste |-> PyStr(<<"S", "c", "h", "e", "d", "u", "l", "e", "d", " ",
                        "T", "r", "i", "b", "e", " ", "(", "S", "T", ")">>)],
     [age |-> PyInt(2), income |-> PyInt(60000),
      occupation |-> PyStr(<<"t", "e", "a", "c", "h", "e", "r">>)],
     [gender |-> PyStr(male)]}

InitParse ==
    /\ parsed = NoOut
    /\ crawl = NoOut
    /\ profile = <<>>
    /\ rule = NoRule
    /\ rule_ast = NoTree
    /\ schemes = <<>>
    /\ scheme_rules = <<>>
    /\ out = NoOut
    /\ verdict = NoOut
    /\ results = <<>>
    /\ pc = "start"
    /\ heap = <<>>
    /\ calls = <<>>

\* rule_json, confidence = parser.parse_text(raw_text)
ParseText ==
    /\ pc = "start"
    /\ \E text \in Texts :
          \E returned \in parse_text(text) :
              parsed' = [text |-> text, rule_structure |-> returned.rule_structure,
                         confidence |-> returned.confidence]
    /\ pc' = "parsed"
    /\ UNCHANGED <<profile, rule, rule_ast, schemes, scheme_rules, out, verdict,
                   results, heap, calls, crawl>>

\* SchemeRule(scheme_id=..., rule_json=rule_json, ...) added and committed:
\* the column holds the JSON text of the tree
StoreRule ==
    /\ pc = "parsed"
    /\ scheme_rules' =
           Append(scheme_rules, RuleRow(1, 1, JsonDumps(parsed.rule_structure)))
    /\ pc' = "stored"
    /\ UNCHANGED <<profile, rule, rule_ast, schemes, out, verdict, results, heap,
                   calls, parsed, crawl>>

\* rule_obj = r.rule_json; evaluate_rule_with_details(rule_obj, profile)
EvaluateStored ==
    /\ pc = "stored"
    /\ \E p \in ParseProfiles :
          /\ profile' = p
          /\ rule_ast' = JsonLoads(scheme_rules[1].rule_json)
          /\ verdict' = evaluate_rule_with_details(
                            JsonLoads(scheme_rules[1].rule_json), p)
    /\ pc' = "done"
    /\ UNCHANGED <<rule, schemes, scheme_rules, out, results, heap, calls, parsed, crawl>>

NextParse == ParseText \/ StoreRule \/ EvaluateStored

SpecParse == InitParse /\ [][NextParse]_vars

(***************************************************************************)
(* The extractors of age and of occupation, gender and state, each on its  *)
(* own (specification SpecExtract).                                        *)
(***************************************************************************)
\* the phrases the age texts and the categorical texts are made of
Phrases ==
    [age |->
        <<<<"b", "e", "t", "w", "e", "e", "n", " ", "1", "8", " ", "a", "n", "d", " ", "3", "5">>,
        <<"1", "8", "-", "3", "5", " ", "y", "e", "a", "r", "s">>,
        <<"a", "b", "o", "v", "e", " ", "2", "1">>,
        <<"b", "e", "l", "o", "w", " ", "6", "0">>,
        <<"a", "g", "e", "d", " ", "f", "r", "o", "m", " ", "5", " ", "t", "o", " ", "9">>,
        <<"a", "t", " ", "l", "e", "a", "s", "t", " ", "1", "8">>,
        <<"u", "n", "d", "e", "r", " ", "2", "5">>,
        <<"n", "o", "t", " ", "e", "x", "c", "e", "e", "d", "i", "n", "g", " ", "4", "0">>,
        <<"a", "d", "u", "l", "t", "s">>>>,
     categorical |->
        <<<<"M", "e", "n">>,
        <<"w", "i", "d", "o", "w", "s">>,
        <<"f", "a", "r", "m", "e", "r", "s">>,
        <<"t", "e", "a", "c", "h", "e", "r", "s", " ", "a", "r", "e", " ", "n", "o", "t", " ", "e", "l", "i", "g", "i", "b", "l", "e">>,
        <<"n", "o", "t", " ", "e", "l", "i", "g", "i", "b", "l", "e", " ", "f", "o", "r", " ", "d", "o", "c", "t", "o", "r", "s", " ", "a", "n", "d", " ", "n", "u", "r", "s", "e", "s">>,
        <<"n", "u", "r", "s", "e">>>>]

\* the empty text and the texts of up to MaxFragments different phrases,
\* one blank between two
TextsOf(phrases) ==
    LET RECURSIVE Joined(_)
        Joined(ks) ==
            IF ks = <<>> THEN <<>>
            ELSE IF Len(ks) = 1 THEN phrases[Head(ks)]
            ELSE phrases[Head(ks)] \o <<" ">> \o Joined(Tail(ks))
        Different(ks) == \A i, j \in 1..Len(ks) : i # j => ks[i] # ks[j]
    IN  {Joined(ks) : ks \in {c \in SeqsUpTo(1..Len(phrases), MaxFragments) :
                                 Different(c)}}

\* self._parse_age(text), text stripped as parse_text hands it over
ExtractAge ==
    /\ pc = "start"
    /\ \E text \in TextsOf(Phrases.age) :
          parsed' = [text |-> text, rules |-> _parse_age(Strip(text))]
    /\ pc' = "age"
    /\ UNCHANGED <<profile, rule, rule_ast, schemes, scheme_rules, out, verdict,
                   results, heap, calls, crawl>>

\* self._parse_categorical(text), text stripped as parse_text hands it over
ExtractCategorical ==
    /\ pc = "start"
    /\ \E text \in TextsOf(Phrases.categorical) :
          parsed' = [text |-> text, rules |-> _parse_categorical(Strip(text))]
    /\ pc' = "categorical"
    /\ UNCHANGED <<profile, rule, rule_ast, schemes, scheme_rules, out, verdict,
                   results, heap, calls, crawl>>

NextExtract == ExtractAge \/ ExtractCategorical

SpecExtract == InitParse /\ [][NextExtract]_vars


(***************************************************************************)
(* Properties of the rule tree evaluator (specification Spec).             *)
(***************************************************************************)
\* the children evaluate walks: those under "any" when the key is there
Children == IF "any" \in rule_ast.keys THEN rule_ast.any ELSE rule_ast.all
Returned == pc = "done"
NonEmpty == Len(Children) > 0
AllMode == "any" \notin rule_ast.keys
Missing(c) == ProfileGet(profile, c.field) = PyNone
\* the status of an entry of an outcome list, the error marker having none
EvalStatus(d) == IF "status" \in DOMAIN d THEN d.status ELSE "error"
CountStatus(st) ==
    Cardinality({i \in 1..Len(verdict.outcomes) : EvalStatus(verdict.outcomes[i]) = st})

\* C1: a tree with zero child conditions (an empty all list, an empty any
\* list, neither key) evaluates to (False, 0.0, [one error marker]) for
\* every profile
C1_EmptyTreeNotEligible ==
    (Returned /\ ~NonEmpty) =>
        /\ verdict.eligible = FALSE
        /\ verdict.score.num = 0
        /\ verdict.outcomes = <<[error |-> "Empty rule set"]>>

C1_Witness ==
    /\ Returned
    /\ rule_ast = AllTree(<<>>)
    /\ profile.age = PyInt(30)
    /\ verdict.eligible = FALSE

\* C2: a condition whose field the profile lacks has the outcome Skipped
\* (status None, skipped True) whatever its operator, and is counted neither
\* as passed (the score's numerator counts the present fields that passed)
\* nor as failed (an all-mode tree stays eligible unless a present field failed)
C2_MissingFieldSkipped ==
    (Returned /\ NonEmpty) =>
        /\ \A i \in 1..Len(Children) :
              Missing(Children[i]) =>
                  /\ verdict.outcomes[i].status = "None"
                  /\ verdict.outcomes[i].skipped = TRUE
        /\ verdict.score.num =
              Cardinality({i \in 1..Len(Children) :
                  ~Missing(Children[i]) /\ verdict.outcomes[i].status = "True"})
        /\ AllMode =>
              (verdict.eligible <=>
                  \A i \in 1..Len(Children) :
                      Missing(Children[i]) \/ verdict.outcomes[i].status = "True")

C2_Witness ==
    /\ Returned
    /\ AllMode
    /\ Len(Children) = 3
    /\ {Children[i].op : i \in 1..3} = {"~", "in", ">="}
    /\ Missing(Children[1]) /\ Missing(Children[2]) /\ ~Missing(Children[3])
    /\ verdict.outcomes[1].skipped /\ verdict.outcomes[2].skipped
    /\ verdict.score = Frac(1, 3)
    /\ verdict.eligible

\* C3: for a non-empty all-mode tree, eligible is true iff no condition has
\* the outcome Fail, whatever the number of Skipped conditions
C3_AllModeEligibility ==
    (Returned /\ NonEmpty /\ AllMode) =>
        (verdict.eligible <=> CountStatus("False") = 0)

C3_Witness ==
    /\ Returned /\ AllMode
    /\ Len(Children) >= 2
    /\ CountStatus("None") = Len(Children)
    /\ verdict.eligible

\* C4: for a non-empty any-mode tree, eligible is true iff at least one
\* condition has the outcome Pass
C4_AnyModeEligibility ==
    (Returned /\ NonEmpty /\ ~AllMode) =>
        (verdict.eligible <=> CountStatus("True") > 0)

C4_Witness ==
    /\ Returned /\ ~AllMode
    /\ CountStatus("True") = 1
    /\ CountStatus("False") = 2
    /\ verdict.eligible

\* C5: 0 <= score <= 1; for a non-empty tree score = passed / total with the
\* Skipped conditions in the total, so the score is 1 only when every
\* condition passed and a Skipped condition keeps it below 1
C5_Score ==
    Returned =>
        /\ verdict.score.den > 0
        /\ 0 <= verdict.score.num /\ verdict.score.num <= verdict.score.den
        /\ NonEmpty =>
              /\ verdict.score.num = CountStatus("True")
              /\ verdict.score.den = Len(Children)
              /\ ScoreEq(verdict.score, One) => CountStatus("True") = Len(Children)
              /\ CountStatus("None") > 0 => ScoreLess(verdict.score, One)

C5_Witness ==
    /\ Returned
    /\ CountStatus("True") = 2
    /\ CountStatus("None") = 1
    /\ verdict.score = Frac(2, 3)


(***************************************************************************)
(* Properties of the batch matcher (specification SpecBatch).              *)
(***************************************************************************)
HasStatus(e, st) ==
    /\ "evaluations" \in DOMAIN e.reasons
    /\ \E i \in 1..Len(e.reasons.evaluations) : EvalStatus(e.reasons.evaluations[i]) = st
NumStatus(e, st) ==
    Cardinality({i \in 1..Len(e.reasons.evaluations) :
                    EvalStatus(e.reasons.evaluations[i]) = st})

\* C6: the label of a scheme from its retained evaluation: Not Eligible if a
\* condition failed, else Eligible if the score is 100%, else Maybe Eligible
\* if the score is above 0 or a condition was skipped, else Not Eligible
C6_Label ==
    Returned =>
        \A k \in 1..Len(results) :
            LET e == results[k]
            IN  "evaluations" \in DOMAIN e.reasons =>
                    e.result =
                        IF HasStatus(e, "False") THEN "Not Eligible"
                        ELSE IF e.score >= 10000 THEN "Eligible"
                        ELSE IF e.score > 0 \/ HasStatus(e, "None")
                             THEN "Maybe Eligible"
                        ELSE "Not Eligible"

C6_Witness ==
    /\ Returned
    /\ Len(results) = 1
    /\ "evaluations" \in DOMAIN results[1].reasons
    /\ Len(results[1].reasons.evaluations) = 3
    /\ NumStatus(results[1], "True") = 2
    /\ NumStatus(results[1], "None") = 1
    /\ results[1].result = "Maybe Eligible"

\* the rows of scheme_rules that belong to scheme id, by position
RulesOf(id) == {i \in 1..Len(scheme_rules) : scheme_rules[i].scheme_id = id}
RuleScore(i) == evaluate(profile, scheme_rules[i].rule_json).score
RuleEligible(i) == evaluate(profile, scheme_rules[i].rule_json).eligible

\* entry e reports rule i of the rules rs, whose evaluation is v
ReportsFirstBest(e, rs, i, v) ==
    /\ e.reasons.evaluations = v.outcomes
    /\ e.score = RoundPercent(v.score)
    /\ \A j \in rs :
          /\ ScoreLeq(RuleScore(j), v.score)
          /\ j < i => ScoreLess(RuleScore(j), v.score)

\* C7: a scheme with rule trees reports the evaluation of its highest-scoring
\* tree, and of the first such tree when several tie
C7_BestRuleFirstOnTie ==
    Returned =>
        \A k \in 1..Len(results) :
            RulesOf(results[k].scheme_id) # {} =>
                \E i \in RulesOf(results[k].scheme_id) :
                    /\ results[k].reasons.rule_id = scheme_rules[i].id
                    /\ ReportsFirstBest(results[k], RulesOf(results[k].scheme_id), i,
                                        evaluate(profile, scheme_rules[i].rule_json))

C7_Witness ==
    /\ Returned
    /\ \E k \in 1..Len(results) :
          \E i, j \in RulesOf(results[k].scheme_id) :
              /\ i < j
              /\ ScoreEq(RuleScore(i), RuleScore(j))
              /\ ~RuleEligible(i) /\ RuleEligible(j)
              /\ results[k].reasons.rule_id = scheme_rules[i].id
              /\ results[k].result = "Not Eligible"

\* a <= b for two titles, character by character
TitleLeq(a, b) ==
    \E n \in 0..Len(a) :
        /\ n <= Len(b)
        /\ \A i \in 1..n : a[i] = b[i]
        /\ \/ n = Len(a)
           \/ n < Len(b) /\ Ord(a[n + 1]) < Ord(b[n + 1])

\* C8: the result holds one entry per scheme, in descending score order,
\* entries of one score in ascending title order
C8_RankedOnePerScheme ==
    Returned =>
        /\ Len(results) = Len(schemes)
        /\ \A r \in 1..Len(schemes) :
              Cardinality({k \in 1..Len(results) :
                  results[k].scheme_id = schemes[r].id
                  /\ results[k].title = schemes[r].title}) = 1
        /\ \A k \in 1..(Len(results) - 1) :
              \/ results[k].score > results[k + 1].score
              \/ /\ results[k].score = results[k + 1].score
                 /\ TitleLeq(results[k].title, results[k + 1].title)

C8_Witness ==
    /\ Returned
    /\ Len(results) = 2
    /\ schemes[1].title = <<"B">> /\ schemes[2].title = <<"A", "B">>
    /\ results[1].title = <<"A", "B">> /\ results[2].title = <<"B">>
    /\ results[1].score = results[2].score
    /\ results[1].score > 0

\* C9: a scheme without rule trees is reported with score 0.0, the label
\* Not Eligible and the note that no eligibility rule is defined yet
C9_NoRules ==
    Returned =>
        \A k \in 1..Len(results) :
            RulesOf(results[k].scheme_id) = {} =>
                /\ results[k].score = 0
                /\ results[k].result = "Not Eligible"
                /\ results[k].reasons = [note |-> "No eligibility rule defined yet"]

C9_Witness ==
    /\ Returned
    /\ Len(results) = 2
    /\ RulesOf(results[2].scheme_id) = {}
    /\ RulesOf(results[1].scheme_id) # {}
    /\ results[1].score > 0
    /\ profile.income # PyNone

(***************************************************************************)
(* Properties of the condition evaluator (specification SpecRule).         *)
(***************************************************************************)
Coerces(v) == _safe_cast_number(v).ok
NumberOf(v) == _safe_cast_number(v).num

\* C10: a numeric operator on a present field fails (is not skipped) when
\* the rule value or the profile value does not coerce to a number, and
\* otherwise passes exactly when the profile number stands in the operator's
\* relation to the rule number
C10_NumericOperators ==
    (Returned /\ rule.op \in {">", "<", ">=", "<="} /\ profile.age # PyNone) =>
        /\ out.skipped = FALSE
        /\ out.status \in {"True", "False"}
        /\ (~Coerces(rule.value) \/ ~Coerces(profile.age)) => out.status = "False"
        /\ (Coerces(rule.value) /\ Coerces(profile.age)) =>
              (out.status = "True" <=>
                  CASE rule.op = ">" -> NumberOf(profile.age) > NumberOf(rule.value)
                    [] rule.op = "<" -> NumberOf(profile.age) < NumberOf(rule.value)
                    [] rule.op = ">=" -> NumberOf(profile.age) >= NumberOf(rule.value)
                    [] rule.op = "<=" -> NumberOf(profile.age) <= NumberOf(rule.value))

C10_Witness ==
    /\ Returned
    /\ rule.op = ">="
    /\ rule.value = PyStr(<<"x">>)
    /\ profile.age = PyStr(<<"1", ",">>)
    /\ out.status = "False"
    /\ out.skipped = FALSE

KnownOps == {">", "<", ">=", "<=", "==", "!=", "in", "not_in"}
Present == profile.age # PyNone

\* C11 as stated: every condition whose operator is not one of the eight
\* has the status Fail
C11_UnknownOperatorAlwaysFails ==
    (Returned /\ rule.op \notin KnownOps) =>
        /\ out.status = "False"
        /\ out.skipped = FALSE

\* C11: a condition whose operator is not one of the eight, on a field the
\* profile has, is returned with the status Fail (not skipped) and a message
\* that names the error; on a field the profile lacks it is Skipped like any
\* other condition; either way a result is returned
C11_UnknownOperator ==
    (Returned /\ rule.op \notin KnownOps) =>
        /\ Present =>
              /\ out.status = "False"
              /\ out.skipped = FALSE
              /\ out.explanation = "ERROR: Unknown operator"
              /\ out.profile_value = profile.age
        /\ ~Present =>
              /\ out.status = "None"
              /\ out.skipped = TRUE

C11_Witness ==
    /\ Returned
    /\ rule.op = "IN"
    /\ rule.value = PyList(<<<<"x">>>>)
    /\ profile.age = PyStr(<<"x">>)
    /\ out.status = "False"

\* the strings of a value as in / not_in see them: its elements when it is a
\* list, itself otherwise, in lower case
LowerSet(v) ==
    IF v.t = "list" THEN {ToLower(v.l[i]) : i \in 1..Len(v.l)}
    ELSE {ToLower(Str(v))}

Passes(p, r) == _evaluate_rule(p, r).status = "True"

\* C12: on a present field, `in` passes iff some profile element equals some
\* rule element, both sides taken as lists of lowercase strings (a scalar
\* as a list of one), `not_in` passes iff none does, and of the two
\* operators on the same inputs exactly one passes
C12_Membership ==
    (Returned /\ rule.op \in {"in", "not_in"} /\ Present) =>
        /\ out.skipped = FALSE
        /\ out.status \in {"True", "False"}
        /\ rule.op = "in" =>
              (out.status = "True" <=>
                  LowerSet(profile.age) \cap LowerSet(rule.value) # {})
        /\ rule.op = "not_in" =>
              (out.status = "True" <=>
                  LowerSet(profile.age) \cap LowerSet(rule.value) = {})
        /\ Passes(profile, [rule EXCEPT !.op = "in"])
              # Passes(profile, [rule EXCEPT !.op = "not_in"])

C12_Witness ==
    /\ Returned
    /\ rule.op = "in"
    /\ rule.value = PyList(<<<<"1">>, <<"X">>>>)
    /\ profile.age = PyStr(<<"x">>)
    /\ out.status = "True"

\* the values bool() takes for false
Falsy == {PyBool(FALSE), PyInt(0), PyFloat(0), PyStr(<<>>), PyList(<<>>)}

\* C13: `==` on a present field passes, when the rule value is a boolean,
\* iff the truth value of the profile value is the rule value, and otherwise
\* iff the two values have the same string form, case ignored
C13_Equality ==
    (Returned /\ rule.op = "==" /\ Present) =>
        /\ out.skipped = FALSE
        /\ out.status \in {"True", "False"}
        /\ rule.value.t = "bool" =>
              (out.status = "True" <=>
                  ((profile.age \notin Falsy) <=> rule.value = PyBool(TRUE)))
        /\ rule.value.t # "bool" =>
              (out.status = "True" <=>
                  ToLower(Str(profile.age)) = ToLower(Str(rule.value)))

C13_Witness ==
    /\ Returned
    /\ rule.op = "=="
    /\ rule.value = PyBool(TRUE)
    /\ profile.age = PyStr(<<"x">>)
    /\ out.status = "True"

(***************************************************************************)
(* More properties of the rule tree evaluator (specification Spec).        *)
(***************************************************************************)
\* C14: a non-empty tree has one outcome per child condition, in the order
\* of the children, each the outcome of its own condition alone: no Fail,
\* Skipped or unknown-operator outcome ends the walk, in either mode
C14_OneOutcomePerChild ==
    (Returned /\ NonEmpty) =>
        /\ Len(verdict.outcomes) = Len(Children)
        /\ \A i \in 1..Len(Children) :
              /\ verdict.outcomes[i].atom = Children[i]
              /\ verdict.outcomes[i].rule =
                    <<Children[i].field, Children[i].op, Children[i].value>>
              /\ verdict.outcomes[i].status =
                    _evaluate_rule(profile, Children[i]).status

C14_Witness ==
    /\ Returned
    /\ Len(Children) = 3
    /\ <<Children[1].op, Children[2].op, Children[3].op>> = <<"~", "==", "<">>
    /\ Len(verdict.outcomes) = 3
    /\ verdict.outcomes[1].explanation = "ERROR: Unknown operator"
    /\ verdict.outcomes[2].status = "None"
    /\ verdict.outcomes[3].status = "True"

(***************************************************************************)
(* Properties of interleaved invocations (specification SpecCalls).        *)
(***************************************************************************)
Done(c) == calls[c].pc = "done"
SameArguments(c, d) ==
    /\ calls[c].profile0 = calls[d].profile0
    /\ calls[c].rule_ast0 = calls[d].rule_ast0

\* C15: two calls of evaluate on the same tree and the same profile return
\* the same eligibility, score and outcome list, whatever other calls the
\* engine served before, between or during them
C15_SameArgumentsSameResult ==
    \A c, d \in 1..Len(calls) :
        (Done(c) /\ Done(d) /\ SameArguments(c, d)) =>
            calls[c].result = calls[d].result

C15_Witness ==
    /\ Len(calls) = 3
    /\ Done(1) /\ Done(2) /\ Done(3)
    /\ SameArguments(1, 3)
    /\ ~SameArguments(1, 2)
    /\ calls[1].alone /\ calls[2].alone /\ calls[3].alone
    /\ Len(calls[1].result.outcomes) = 2
    /\ calls[1].result = calls[3].result
    /\ calls[1].result # calls[2].result

\* C17: when evaluate has returned, the rule tree and the profile it was
\* given hold what they held when it was called, and the outcome list it
\* returned is a list the call itself created
C17_InputsUnchanged ==
    \A c \in 1..Len(calls) :
        Done(c) =>
            /\ heap[calls[c].profile].v = calls[c].profile0
            /\ heap[calls[c].rule_ast].v = calls[c].rule_ast0
            /\ calls[c].ret.outcomes \in calls[c].created
            /\ calls[c].ret.outcomes \notin {engine} \cup ProfileRefs \cup TreeRefs

C17_Witness ==
    /\ Len(calls) >= 2
    /\ Done(1) /\ Done(2)
    /\ calls[1].rule_ast = calls[2].rule_ast
    /\ calls[1].rule_ast0 = CallTrees[1]
    /\ heap[calls[2].rule_ast].v = CallTrees[1]
    /\ calls[1].ret.outcomes # calls[2].ret.outcomes
    /\ Len(heap[calls[2].ret.outcomes].v) = 2

\* C18: calls of evaluate interleaved on the one engine each return what the
\* call returns when it runs alone, no call changes a result already
\* returned, and no call writes an object that another call reads or writes
C18_InterleavedCallsIndependent ==
    \A c \in 1..Len(calls) :
        /\ Done(c) =>
              /\ calls[c].result = evaluate(calls[c].profile0, calls[c].rule_ast0)
              /\ heap[calls[c].ret.outcomes].v = calls[c].result.outcomes
        /\ \A d \in 1..Len(calls) :
              d # c => calls[c].writes \cap (calls[d].reads \cup calls[d].writes) = {}

C18_Witness ==
    /\ Len(calls) >= 2
    /\ Done(1) /\ Done(2)
    /\ ~calls[1].alone /\ ~calls[2].alone
    /\ calls[1].rule_ast = calls[2].rule_ast
    /\ calls[1].profile # calls[2].profile
    /\ calls[1].result.eligible /\ ~calls[2].result.eligible
    /\ Len(calls[1].result.outcomes) = 2 /\ Len(calls[2].result.outcomes) = 2

(***************************************************************************)
(* Properties of extraction and of the stored rule tree (specification     *)
(* SpecParse).                                                             *)
(***************************************************************************)
\* the conditions of the tree parse_text returned
Conditions == parsed.rule_structure.all

\* two verdicts with the same eligible flag, score and statuses
SameVerdict(before, after) ==
    /\ after.eligible = before.eligible
    /\ ScoreEq(after.score, before.score)
    /\ Len(after.outcomes) = Len(before.outcomes)
    /\ \A i \in 1..Len(after.outcomes) :
          /\ EvalStatus(after.outcomes[i]) = EvalStatus(before.outcomes[i])
          /\ "skipped" \in DOMAIN after.outcomes[i] =>
                 after.outcomes[i].skipped = before.outcomes[i].skipped

\* C16: a tree parse_text returned, written to JSON and read back, gives
\* for every profile the eligible flag, the score and the status of every
\* condition that the tree gives as parse_text returned it
C16_RoundTripEvaluatesAlike ==
    pc = "done" =>
        SameVerdict(evaluate(profile, parsed.rule_structure), verdict)

\* a tree with a fractional income bound was stored, read back and
\* evaluated against a profile whose income lies between the bound and the
\* whole number below it
C16_Witness ==
    /\ pc = "done"
    /\ "income" \in DOMAIN profile
    /\ Len(Conditions) >= 2
    /\ \E i \in 1..Len(Conditions) :
          /\ Conditions[i].field = "income"
          /\ Conditions[i].value.t = "float"
          /\ Conditions[i].value.n % Scale # 0
          /\ profile.income.n < Conditions[i].value.n
          /\ profile.income.n > (Conditions[i].value.n \div Scale) * Scale
          /\ verdict.outcomes[i].status = "True"
    /\ \E i \in 1..Len(Conditions) : Conditions[i].value.t = "list"

\* C19: the tree parse_text returns has the one key 'all', and under it a
\* list of atomic conditions, each a field, an op and a value that is a
\* number, a string or a list of strings: no 'any' key, no tree inside
C19_FlatConjunction ==
    parsed # NoOut =>
        /\ parsed.rule_structure.keys = {"all"}
        /\ parsed.rule_structure.any = <<>>
        /\ \A i \in 1..Len(Conditions) :
              /\ DOMAIN Conditions[i] = {"field", "op", "value"}
              /\ Conditions[i].value.t \in {"int", "float", "str", "list"}

\* parse_text has returned a tree of three conditions or more, one of them
\* on the caste
C19_Witness ==
    /\ parsed # NoOut
    /\ Len(Conditions) >= 3
    /\ \E i \in 1..Len(Conditions) : Conditions[i].field = "caste"

\* no pattern of the parser matches anywhere in the text
NoPatternMatches(text) ==
    \A name \in DOMAIN patterns \ {"state_suffix", "separator"} :
        ~Search(patterns[name], Strip(text), 1).ok

\* C20: parse_text returns for every text, the empty one included; the
\* confidence is 1.0 exactly when the condition list is not empty and 0.0
\* otherwise; a text no pattern matches gives the empty list and 0.0
C20_Confidence ==
    /\ pc = "start" => \A text \in Texts : parse_text(text) # {}
    /\ parsed # NoOut =>
          /\ parsed.confidence \in {0, 1}
          /\ parsed.confidence = 1 <=> Conditions # <<>>
          /\ parsed.confidence = 0 <=> Conditions = <<>>
    /\ pc = "parsed" =>
          \/ Conditions = <<>> /\ parsed.confidence = 0
          \/ ~NoPatternMatches(parsed.text)

\* parse_text has returned for a text that is not empty and that a pattern
\* matches, and found no condition in it
C20_Witness ==
    /\ pc = "parsed"
    /\ parsed.text # <<>>
    /\ ~NoPatternMatches(parsed.text)
    /\ Conditions = <<>>
    /\ parsed.confidence = 0

(***************************************************************************)
(* Properties of the extractors (specification SpecExtract).               *)
(***************************************************************************)
\* the conditions extracted on a field with an operator, and their values
Extracted(field, op) ==
    {i \in 1..Len(parsed.rules) :
        parsed.rules[i].field = field /\ parsed.rules[i].op = op}
ValuesOf(field, op) ==
    UNION {{parsed.rules[i].value.l[k] : k \in 1..Len(parsed.rules[i].value.l)} :
              i \in Extracted(field, op)}

\* C21: the values of the occupation in condition and of the occupation
\* not_in condition are disjoint; not_in is emitted exactly when the
\* exclusion set is not empty, in exactly when a matched occupation is
\* outside the exclusion set
C21_OccupationLists ==
    LET Lists(excl, occs) ==
            /\ ValuesOf("occupation", "in") \cap ValuesOf("occupation", "not_in") = {}
            /\ Cardinality(Extracted("occupation", "in")) <= 1
            /\ Cardinality(Extracted("occupation", "not_in")) <= 1
            /\ Extracted("occupation", "not_in") # {} <=> excl # {}
            /\ Extracted("occupation", "in") # {} <=> occs \ excl # {}
            /\ ValuesOf("occupation", "not_in") = excl
            /\ ValuesOf("occupation", "in") = occs \ excl
    IN  pc = "categorical" =>
            Lists(excluded(parsed.text), occ_norms(parsed.text))

\* a text naming an excluded occupation and another one: the excluded one is
\* matched as an occupation too and is not required
C21_Witness ==
    /\ pc = "categorical"
    /\ Extracted("occupation", "in") # {}
    /\ Extracted("occupation", "not_in") # {}
    /\ occ_norms(parsed.text) \cap excluded(parsed.text) # {}

\* the match of an age pattern in the text, and the number in its group g
AgeMatch(name) == Search(patterns[name], parsed.text, 1)
AgeOf(name, g) == PyInt(DigitsVal(Group(parsed.text, AgeMatch(name), g)))
AgeRange(name) ==
    <<Cond("age", ">=", AgeOf(name, 1)), Cond("age", "<=", AgeOf(name, 2))>>
AgeBound(name, op) ==
    IF AgeMatch(name).ok THEN <<Cond("age", op, AgeOf(name, 1))>> ELSE <<>>

\* C22: 'between A and B' gives exactly age >= A and age <= B; else the
\* range 'A-B' gives exactly age >= A and age <= B; else the minimum and the
\* maximum pattern each give their own bound; never more than two conditions
C22_AgePriority ==
    pc = "age" =>
        /\ Len(parsed.rules) <= 2
        /\ IF AgeMatch("age_between").ok
           THEN parsed.rules = AgeRange("age_between")
           ELSE IF AgeMatch("age_simple_range").ok
           THEN parsed.rules = AgeRange("age_simple_range")
           ELSE parsed.rules = AgeBound("age_min", ">=") \o AgeBound("age_max", "<=")

\* a text with a 'between' phrase and a minimum phrase of another age
C22_Witness ==
    /\ pc = "age"
    /\ AgeMatch("age_between").ok
    /\ AgeMatch("age_min").ok
    /\ AgeOf("age_min", 1) # AgeOf("age_between", 1)
    /\ Len(parsed.rules) = 2

\* a word of the set stands in the text, in any case, as a whole word
HasTerm(terms) ==
    LET Letters == {Lower[k] : k \in 1..26}
        IsWordAt(low, i) ==
            i >= 1 /\ i <= Len(low) /\ low[i] \in Letters \cup Digits \cup {"_"}
        Stands(low, n) ==
            \E i \in 1..(Len(low) - n + 1) :
                /\ SubSeq(low, i, i + n - 1) \in terms
                /\ ~IsWordAt(low, i - 1)
                /\ ~IsWordAt(low, i + n)
        Has(low) == \E n \in {Len(t) : t \in terms} : Stands(low, n)
    IN  Has(SubSeq(ToLower(parsed.text), 1, Len(parsed.text)))
FemaleTerms ==
    {<<"w", "o", "m", "a", "n">>, <<"w", "o", "m", "e", "n">>,
     <<"f", "e", "m", "a", "l", "e">>, <<"w", "i", "d", "o", "w">>,
     <<"w", "i", "d", "o", "w", "s">>}
MaleTerms == {<<"m", "a", "n">>, <<"m", "e", "n">>, <<"m", "a", "l", "e">>}
GenderConditions ==
    SelectSeq(parsed.rules, LAMBDA c : c.field = "gender")

\* C23: at most one gender condition: female when a female term stands in
\* the text, whatever male terms do; male when a male term does and no
\* female term; none when neither
C23_Gender ==
    pc = "categorical" =>
        /\ Len(GenderConditions) <= 1
        /\ IF HasTerm(FemaleTerms)
           THEN GenderConditions = <<Cond("gender", "==", PyStr(female))>>
           ELSE IF HasTerm(MaleTerms)
           THEN GenderConditions = <<Cond("gender", "==", PyStr(male))>>
           ELSE GenderConditions = <<>>

\* a text with a female term after a male term
C23_Witness ==
    /\ pc = "categorical"
    /\ HasTerm(FemaleTerms)
    /\ HasTerm(MaleTerms)
    /\ GenderConditions = <<Cond("gender", "==", PyStr(female))>>

(***************************************************************************)
(* Properties of the mode of a tree (specification Spec).                  *)
(***************************************************************************)
\* the conditions the outcomes were computed from, in order
Atoms == [i \in 1..Len(verdict.outcomes) |-> verdict.outcomes[i].atom]
EmptyVerdict == Verdict(FALSE, Zero, <<[error |-> "Empty rule set"]>>)

\* C24: with an any key the children under any are evaluated, in any-mode,
\* whatever stands under all; without it the children under all, in
\* all-mode; a tree with neither key is an all-mode tree of zero children
C24_ModeFromKeys ==
    Returned =>
        /\ ("any" \in rule_ast.keys /\ rule_ast.any # <<>>) =>
              /\ Atoms = rule_ast.any
              /\ verdict.eligible <=> CountStatus("True") > 0
        /\ ("any" \in rule_ast.keys /\ rule_ast.any = <<>>) => verdict = EmptyVerdict
        /\ ("any" \notin rule_ast.keys /\ rule_ast.all # <<>>) =>
              /\ Atoms = rule_ast.all
              /\ verdict.eligible <=> CountStatus("False") = 0
        /\ ("any" \notin rule_ast.keys /\ rule_ast.all = <<>>) => verdict = EmptyVerdict
        /\ rule_ast.keys = {} => verdict = evaluate(profile, AllTree(<<>>))

\* a tree with both keys whose all child fails and whose any children pass
\* in part: eligible
C24_Witness ==
    /\ Returned
    /\ rule_ast.keys = {"any", "all"}
    /\ rule_ast.any # <<>>
    /\ _evaluate_rule(profile, rule_ast.all[1]).status = "False"
    /\ CountStatus("True") > 0
    /\ CountStatus("False") > 0
    /\ verdict.eligible

(***************************************************************************)
(* The label of a scheme and the flag of its rule (specification           *)
(* SpecBatch).                                                             *)
(***************************************************************************)
\* the matcher has returned for a table of one scheme with one rule, whose
\* tree is not empty
OneRule ==
    /\ Returned
    /\ Len(schemes) = 1
    /\ Len(scheme_rules) = 1
    /\ RulesList(scheme_rules[1].rule_json) # <<>>
\* best_passed: the flag evaluate returned for the rule
Flag == evaluate_rule_with_details(scheme_rules[1].rule_json, profile).eligible
AnyKey == "any" \in scheme_rules[1].rule_json.keys

\* C25 as stated: the label Eligible goes with the flag true and the label
\* Not Eligible with the flag false, in either mode
C25_LabelAgreesWithFlag ==
    OneRule =>
        /\ results[1].result = "Eligible" => Flag
        /\ results[1].result = "Not Eligible" => ~Flag

\* C25: the label Eligible goes with the flag true in either mode; the
\* label Not Eligible goes with the flag false for an all-mode tree, and
\* for an any-mode tree with the flag true exactly when a condition passed
C25_LabelAndFlag ==
    OneRule =>
        /\ results[1].result = "Eligible" => Flag
        /\ (results[1].result = "Not Eligible" /\ ~AnyKey) => ~Flag
        /\ (results[1].result = "Not Eligible" /\ AnyKey) =>
              (Flag <=> HasStatus(results[1], "True"))

\* an any-mode tree of which one condition passed and one failed: Not
\* Eligible, and the flag true
C25_Witness ==
    /\ OneRule
    /\ AnyKey
    /\ HasStatus(results[1], "True")
    /\ HasStatus(results[1], "False")
    /\ results[1].result = "Not Eligible"
    /\ Flag

(***************************************************************************)
(* The label on the scheme page and the label of the match                 *)
(* (specification SpecDetail).                                             *)
(***************************************************************************)
\* the scheme page shows an evaluation
Shown == pc = "detail" /\ "evaluation" \in DOMAIN out /\ out.evaluation # NoEvaluation
\* the entry of the match for the scheme of the page
Matched == results[CHOOSE k \in 1..Len(results) : results[k].scheme_id = out.scheme_id]

\* C27: the label on the scheme page is the label the match gave the
\* scheme, whatever passed, failed or was skipped
C27_SameLabel == Shown => out.evaluation.label = Matched.result

(***************************************************************************)
(* Properties of the exception handler (specification SpecMalformed).      *)
(***************************************************************************)
\* (False, 0.0, [one error entry])
ErrorVerdict(v) ==
    /\ v.eligible = FALSE
    /\ v.score = Zero
    /\ Len(v.outcomes) = 1
    /\ DOMAIN v.outcomes[1] = {"error"}
\* the rule value is a mapping with a list of conditions under the key its
\* mode takes, and the profile is a mapping
ProperTree(v) ==
    \/ "t" \notin DOMAIN v
    \/ /\ v.t = "dict"
       /\ LET c == IF "any" \in v.keys THEN v.any ELSE v.all
          IN  /\ c.t = "list"
              /\ \A i \in 1..Len(c.l) : "field" \in DOMAIN c.l[i]
ProperProfile == "t" \notin DOMAIN profile
EntryOfScheme(id) ==
    results[CHOOSE k \in 1..Len(results) : results[k].scheme_id = id]

\* C26: evaluate_rule_with_details returns for every rule value and every
\* profile: the engine's result, or (False, 0.0, [one error entry]) when
\* the engine raised; and the match has an entry for each scheme, the one
\* next to a malformed rule evaluated as if it stood alone
C26_NeverRaises ==
    /\ pc = "evaluated" =>
          /\ "raised" \notin DOMAIN verdict
          /\ (ProperTree(rule_ast) /\ ProperProfile) =>
                verdict = evaluate(profile, AsTree(rule_ast))
          /\ ~ProperTree(rule_ast) => ErrorVerdict(verdict)
          /\ (~ProperProfile /\ ProperTree(rule_ast)) =>
                \/ ErrorVerdict(verdict)
                \/ verdict = evaluate(profile, AsTree(rule_ast))
    /\ pc = "done" =>
          /\ Len(results) = Len(schemes)
          /\ \A id \in 1..Len(schemes) : \E k \in 1..Len(results) :
                results[k].scheme_id = id
          /\ "evaluations" \in DOMAIN EntryOfScheme(1).reasons
          /\ ProperProfile =>
                EntryOfScheme(2).reasons.evaluations
                    = evaluate(profile, scheme_rules[2].rule_json).outcomes

\* a match over a table whose first scheme has the rule null: its entry
\* holds the error, the entry of the second scheme its own evaluation
C26_Witness ==
    /\ pc = "done"
    /\ rule_ast = PyNone
    /\ DOMAIN EntryOfScheme(1).reasons.evaluations[1] = {"error"}
    /\ EntryOfScheme(1).result = "Not Eligible"
    /\ EntryOfScheme(2).result = "Maybe Eligible"

(***************************************************************************)
(* The two engines compared (specification SpecSuperseded).                *)
(***************************************************************************)
Both == pc = "both"
\* the profile has a value for every field the tree names
AllPresent == \A i \in 1..Len(rule_ast.all) : ~Missing(rule_ast.all[i])

\* C28: on an all-mode tree whose fields the profile all has, the two
\* engines return the same flag and the same score; where they differ a
\* field is missing, which the superseded engine counted as a failure
C28_EnginesAgree ==
    Both =>
        /\ AllPresent =>
              /\ out.eligible = verdict.eligible
              /\ ScoreEq(out.score, verdict.score)
        /\ (out.eligible # verdict.eligible \/ ~ScoreEq(out.score, verdict.score)) =>
              /\ ~AllPresent
              /\ ~out.eligible
              /\ verdict.eligible

\* a tree of three conditions on fields the profile has, one of them
\* failed: not eligible for both, score 2/3 for both
C28_Witness ==
    /\ Both
    /\ AllPresent
    /\ Len(rule_ast.all) = 3
    /\ {rule_ast.all[i].field : i \in 1..3} = {"age", "income", "gender"}
    /\ ~out.eligible
    /\ ~verdict.eligible
    /\ out.score = Frac(2, 3)
    /\ verdict.score = Frac(2, 3)

(***************************************************************************)
(* The two equality operators on one value (specification SpecRule).       *)
(***************************************************************************)
\* the condition evaluated was == or != and the profile has the field
EqualityEvaluated ==
    /\ pc = "done"
    /\ rule.op \in {"==", "!="}
    /\ profile.age # PyNone

\* whether the condition with the other of the two operators passes
OtherPasses ==
    _evaluate_rule(profile, Cond(rule.field, IF rule.op = "==" THEN "!=" ELSE "==",
                                 rule.value)).status = "True"

ExactlyOnePasses == (out.status = "True") # OtherPasses

SeedRows == 1..Len(crawl.urls)

====
